---------------------------- MODULE Spec2Model ----------------------------
(***************************************************************************)
(* A model of the JSON lexer (src/src/lexer.rs) and of the recursive       *)
(* descent parser (src/src/parser.rs).                                     *)
(*                                                                         *)
(* The input text is a sequence of characters (one-character strings).     *)
(* The lexer is modelled character by character, the parser as a machine   *)
(* with an explicit call stack whose steps are the token operations of     *)
(* the code (peek, advance, expect).                                       *)
(***************************************************************************)
EXTENDS Integers, Sequences, FiniteSets, TLC

VARIABLES
    input,      \* the characters of the text handed to parse_json / Lexer::new
    lexer,      \* Lexer { input (as the read index pos), line, column, finished }
    peeked,     \* the slot of Parser.lexer: Peekable<I>; <<>> when nothing is held
    stack,      \* the parser's call stack (innermost frame last)
    ret,        \* the value handed back by the call that returned last
    result,     \* what parse returned: Running, Ok(value), Err(error) or Panic
    pulled,     \* history: every item the lexer iterator has produced, in order
    consumed    \* history: how many tokens Parser::advance has taken

vars == <<input, lexer, peeked, stack, ret, result, pulled, consumed>>

(***************************************************************************)
(* Bounds of the model.                                                    *)
(***************************************************************************)
\* the number of lexemes an enumerated input is made of
MaxChunks == 4

\* the number of pieces an enumerated number text is made of
MaxNumChunks == 3

\* the number of pieces the body of an enumerated string text is made of
MaxStrChunks == 2

(***************************************************************************)
(* Characters.                                                             *)
(***************************************************************************)
NoChar == "None"

NL == "\n"

CR == "\r"

TAB == "\t"

Digits == {"0", "1", "2", "3", "4", "5", "6", "7", "8", "9"}

LowerLetters ==
    {"a", "b", "c", "d", "e", "f", "g", "h", "i", "j", "k", "l", "m",
     "n", "o", "p", "q", "r", "s", "t", "u", "v", "w", "x", "y", "z"}

UpperLetters ==
    {"A", "B", "C", "D", "E", "F", "G", "H", "I", "J", "K", "L", "M",
     "N", "O", "P", "Q", "R", "S", "T", "U", "V", "W", "X", "Y", "Z"}

\* char::is_ascii_digit
IsAsciiDigit(c) == c \in Digits

\* char::is_ascii_alphanumeric
IsAsciiAlphanumeric(c) == c \in Digits \cup LowerLetters \cup UpperLetters

\* char::is_ascii_hexdigit
IsAsciiHexdigit(c) ==
    c \in Digits \cup {"a", "b", "c", "d", "e", "f"} \cup {"A", "B", "C", "D", "E", "F"}

\* char::is_whitespace (the White_Space characters that are below U+0080)
IsWhitespace(c) == c \in {" ", TAB, NL, CR, "\f"}

\* the value of a hexadecimal digit (char::to_digit(16), as from_str_radix uses it)
HexVal(c) ==
    CASE c = "0" -> 0 [] c = "1" -> 1 [] c = "2" -> 2 [] c = "3" -> 3
      [] c = "4" -> 4 [] c = "5" -> 5 [] c = "6" -> 6 [] c = "7" -> 7
      [] c = "8" -> 8 [] c = "9" -> 9
      [] c \in {"a", "A"} -> 10 [] c \in {"b", "B"} -> 11
      [] c \in {"c", "C"} -> 12 [] c \in {"d", "D"} -> 13
      [] c \in {"e", "E"} -> 14 [] c \in {"f", "F"} -> 15

\* the code point of a character of the input (the characters the model uses)
CodeOf(c) ==
    CASE c = TAB -> 9 [] c = NL -> 10 [] c = "\f" -> 12 [] c = CR -> 13
      [] c = " " -> 32 [] c = "\"" -> 34 [] c = "+" -> 43 [] c = "," -> 44
      [] c = "-" -> 45 [] c = "." -> 46 [] c = "/" -> 47
      [] c = "0" -> 48 [] c = "1" -> 49 [] c = "2" -> 50 [] c = "3" -> 51
      [] c = "4" -> 52 [] c = "5" -> 53 [] c = "6" -> 54 [] c = "7" -> 55
      [] c = "8" -> 56 [] c = "9" -> 57 [] c = ":" -> 58 [] c = "@" -> 64
      [] c = "A" -> 65 [] c = "D" -> 68 [] c = "E" -> 69 [] c = "F" -> 70
      [] c = "[" -> 91 [] c = "\\" -> 92 [] c = "]" -> 93
      [] c = "a" -> 97 [] c = "b" -> 98 [] c = "d" -> 100 [] c = "e" -> 101
      [] c = "f" -> 102 [] c = "g" -> 103 [] c = "l" -> 108 [] c = "n" -> 110 [] c = "r" -> 114
      [] c = "s" -> 115 [] c = "t" -> 116 [] c = "u" -> 117 [] c = "x" -> 120
      [] c = "{" -> 123 [] c = "}" -> 125

(***************************************************************************)
(* Tokens and lexer errors.  A token kind is [t, v]: v is the payload of   *)
(* String (the decoded code points) and of Number (the f64 the accumulated *)
(* text was converted to), and <<>> otherwise.                             *)
(***************************************************************************)
Kind(t) == [t |-> t, v |-> <<>>]

KindV(t, v) == [t |-> t, v |-> v]

\* LexerErrorKinds; c is the character UnexcpectedChar and InvalidEscapeChar carry
ErrKind(k) == [k |-> k, c |-> ""]

ErrKindC(k, c) == [k |-> k, c |-> c]

\* Option::None of the lexer iterator
NoItem == [ok |-> FALSE, none |-> TRUE]

(***************************************************************************)
(* Lexer.                                                                  *)
(***************************************************************************)
\* a lexer that counts lines and columns from 0
LexerNew_ZeroBased == [pos |-> 1, line |-> 0, column |-> 0, finished |-> FALSE]

\* Lexer::new
LexerNew == [pos |-> 1, line |-> 1, column |-> 1, finished |-> FALSE]

\* Lexer::peek
LxPeek(lx) == IF lx.pos <= Len(input) THEN input[lx.pos] ELSE NoChar

\* an advance that counts a newline as one more column of the same line
LxAdvance_NoNewline(lx) ==
    IF lx.pos > Len(input) THEN lx
    ELSE [lx EXCEPT !.pos = @ + 1, !.column = @ + 1]

\* Lexer::advance
LxAdvance(lx) ==
    IF lx.pos > Len(input) THEN lx
    ELSE IF input[lx.pos] = NL
         THEN [lx EXCEPT !.pos = @ + 1, !.line = @ + 1, !.column = 1]
         ELSE [lx EXCEPT !.pos = @ + 1, !.column = @ + 1]

\* Lexer::skip_whitespace
RECURSIVE SkipWhitespace(_)
SkipWhitespace(lx) ==
    IF LxPeek(lx) # NoChar /\ IsWhitespace(LxPeek(lx))
    THEN SkipWhitespace(LxAdvance(lx))
    ELSE lx

\* Lexer::new_token: a token at the lexer's current line and column
NewToken(lx, kind, start) ==
    [ok |-> TRUE, none |-> FALSE, kind |-> kind,
     line |-> lx.line, column |-> lx.column, start |-> start]

\* Lexer::return_error: an error at the lexer's current line and column
ReturnError(lx, kind, start) ==
    [ok |-> FALSE, none |-> FALSE, kind |-> kind,
     line |-> lx.line, column |-> lx.column, start |-> start]

\* the Ok of a sub-scanner: the lexer after it, and what it read
ScanOk(lx, v) == [ok |-> TRUE, lx |-> lx, v |-> v]

\* the Err of a sub-scanner: the lexer where it failed, and the kind
ScanErr(lx, kind) == [ok |-> FALSE, lx |-> lx, kind |-> kind]


(***************************************************************************)
(* String scanning.                                                        *)
(***************************************************************************)
\* the `for _ in 0..4` loop of read_escape_sequence: n hex digits are still to
\* be read, code is the value of those read (u32::from_str_radix of `hex`)
RECURSIVE ReadHexDigits(_, _, _)
ReadHexDigits(lx, n, code) ==
    IF n = 0 THEN ScanOk(lx, code)
    ELSE IF LxPeek(lx) # NoChar /\ IsAsciiHexdigit(LxPeek(lx))
         THEN ReadHexDigits(LxAdvance(lx), n - 1, code * 16 + HexVal(LxPeek(lx)))
         ELSE ScanErr(lx, ErrKind("InvalidEscape"))

\* char::from_u32: Some for a scalar value, None for a surrogate or above U+10FFFF
IsScalarValue(code) == code <= 1114111 /\ ~(55296 <= code /\ code <= 57343)

\* an escape that pushes the character that follows the backslash as it is
EscapeCode_Literal(c) == CodeOf(c)

\* the single-character escapes of read_escape_sequence: the code point pushed
EscapeCode(c) ==
    CASE c = "\"" -> 34 [] c = "\\" -> 92 [] c = "/" -> 47 [] c = "b" -> 8
      [] c = "f" -> 12 [] c = "n" -> 10 [] c = "r" -> 13 [] c = "t" -> 9

\* the end of the `Some('u')` arm: h is the four digits read (or the error),
\* char::from_u32 decides whether the code point is pushed
PushCodePoint(h, acc) ==
    IF ~h.ok THEN h
    ELSE IF IsScalarValue(h.v) THEN ScanOk(h.lx, Append(acc, h.v))
    ELSE ScanErr(h.lx, ErrKind("InvalidEscape"))

\* the match of read_escape_sequence, on the lexer after the backslash
EscapeMatch(lx, acc) ==
    LET c == LxPeek(lx)
    IN  IF c \in {"\"", "\\", "/", "b", "f", "n", "r", "t"}
        THEN ScanOk(LxAdvance(lx), Append(acc, EscapeCode(c)))
        ELSE IF c = "u"
        THEN PushCodePoint(ReadHexDigits(LxAdvance(lx), 4, 0), acc)
        ELSE IF c = NoChar THEN ScanErr(lx, ErrKind("InvalidEscape"))
        ELSE ScanErr(lx, ErrKindC("InvalidEscapeChar", c))

\* Lexer::read_escape_sequence; acc is `result`, the decoded text so far
ReadEscapeSequence(lx, acc) == EscapeMatch(LxAdvance(lx), acc)

RECURSIVE ReadStringLoop(_, _)

\* `self.read_escape_sequence(&mut result)?` in the loop of read_string: the
\* error is returned, or the loop goes on after the escape
AfterEscape(e) == IF e.ok THEN ReadStringLoop(e.lx, e.v) ELSE e

\* a loop that takes raw control characters other than the line ends as text
ReadStringLoop_RawAllowed(lx, acc) ==
    LET c == LxPeek(lx)
    IN  IF c = NoChar THEN ScanErr(lx, ErrKind("UnclosedString"))
        ELSE IF c = "\"" THEN ScanOk(LxAdvance(lx), acc)
        ELSE IF c = NL \/ c = CR THEN ScanErr(lx, ErrKind("UnclosedString"))
        ELSE IF c = "\\" THEN AfterEscape(ReadEscapeSequence(lx, acc))
        ELSE ReadStringLoop(LxAdvance(lx), Append(acc, CodeOf(c)))

\* the `while let Some(c) = self.peek()` loop of read_string
ReadStringLoop(lx, acc) ==
    LET c == LxPeek(lx)
    IN  IF c = NoChar THEN ScanErr(lx, ErrKind("UnclosedString"))
        ELSE IF c = "\"" THEN ScanOk(LxAdvance(lx), acc)
        ELSE IF c = NL \/ c = CR THEN ScanErr(lx, ErrKind("UnclosedString"))
        ELSE IF CodeOf(c) < 32
             THEN ScanErr(lx, ErrKind("UnescapedControlCharacter"))
        ELSE IF c = "\\" THEN AfterEscape(ReadEscapeSequence(lx, acc))
        ELSE ReadStringLoop(LxAdvance(lx), Append(acc, CodeOf(c)))

\* Lexer::read_string
ReadString(lx) == ReadStringLoop(LxAdvance(lx), <<>>)

(***************************************************************************)
(* Number scanning.  `nums` is the text accumulated for the conversion.    *)
(***************************************************************************)
\* the digit loops of read_integer, read_fraction and read_exponent
RECURSIVE ReadDigits(_, _, _)
ReadDigits(lx, nums, found) ==
    IF LxPeek(lx) # NoChar /\ IsAsciiDigit(LxPeek(lx))
    THEN ReadDigits(LxAdvance(lx), Append(nums, LxPeek(lx)), TRUE)
    ELSE [lx |-> lx, nums |-> nums, found |-> found]

\* a digit loop that is content with no digit
DigitsOr_Lenient(d, kind) == ScanOk(d.lx, d.nums)

\* after a digit loop: the error `kind` when no digit was found
DigitsOr(d, kind) ==
    IF ~d.found THEN ScanErr(d.lx, ErrKind(kind)) ELSE ScanOk(d.lx, d.nums)

\* a read_integer that does not look at what follows the 0
AfterZero_Unchecked(lx, nums) == ScanOk(lx, Append(nums, "0"))

\* the `Some('0')` arm of read_integer, on the lexer after the 0
AfterZero(lx, nums) ==
    IF LxPeek(lx) # NoChar /\ IsAsciiDigit(LxPeek(lx))
    THEN ScanErr(lx, ErrKind("LeadingZero"))
    ELSE ScanOk(lx, Append(nums, "0"))

\* Lexer::read_integer
ReadInteger(lx, nums) ==
    IF LxPeek(lx) = "0" THEN AfterZero(LxAdvance(lx), nums)
    ELSE IF LxPeek(lx) # NoChar /\ IsAsciiDigit(LxPeek(lx))
         THEN DigitsOr(ReadDigits(lx, nums, TRUE), "InvalidNumber")
         ELSE ScanErr(lx, ErrKind("InvalidNumber"))

\* Lexer::read_fraction
ReadFraction(lx, nums) ==
    IF LxPeek(lx) = "."
    THEN DigitsOr(ReadDigits(LxAdvance(lx), Append(nums, "."), FALSE),
                  "InvalidDecimal")
    ELSE ScanOk(lx, nums)

\* a read_exponent whose digit loop starts with found_digits set
ExponentDigits_FoundSet(lx, nums) ==
    IF LxPeek(lx) \in {"+", "-"}
    THEN DigitsOr(ReadDigits(LxAdvance(lx), Append(nums, LxPeek(lx)), TRUE),
                  "InvalidExponent")
    ELSE DigitsOr(ReadDigits(lx, nums, TRUE), "InvalidExponent")

\* read_exponent after the exponent marker: the optional sign, then the digits
ExponentDigits(lx, nums) ==
    IF LxPeek(lx) \in {"+", "-"}
    THEN DigitsOr(ReadDigits(LxAdvance(lx), Append(nums, LxPeek(lx)), FALSE),
                  "InvalidExponent")
    ELSE DigitsOr(ReadDigits(lx, nums, FALSE), "InvalidExponent")

\* Lexer::read_exponent
ReadExponent(lx, nums) ==
    IF LxPeek(lx) \in {"e", "E"}
    THEN ExponentDigits(LxAdvance(lx), Append(nums, "e"))
    ELSE ScanOk(lx, nums)

\* the longest prefix of digits of s from index i on: the index after it
RECURSIVE SkipDigits(_, _)
SkipDigits(s, i) ==
    IF i <= Len(s) /\ s[i] \in Digits THEN SkipDigits(s, i + 1) ELSE i

\* the exponent of a float text: s from index i on is 'e' [sign] digits
F64Exponent(s, i) ==
    /\ s[i] \in {"e", "E"}
    /\ IF i + 1 <= Len(s) /\ s[i + 1] \in {"+", "-"}
       THEN i + 2 <= Len(s) /\ SkipDigits(s, i + 2) = Len(s) + 1
       ELSE i + 1 <= Len(s) /\ SkipDigits(s, i + 1) = Len(s) + 1

\* the end of a float text: s from index i on is empty or an exponent
F64Tail(s, i) == i = Len(s) + 1 \/ (i <= Len(s) /\ F64Exponent(s, i))

\* the mantissa of a float text from index i on, then the tail: digits with an
\* optional '.' and digits, at least one digit in all
F64Mantissa(s, i, j) ==
    IF j <= Len(s) /\ s[j] = "."
    THEN /\ (j - i) + (SkipDigits(s, j + 1) - (j + 1)) >= 1
         /\ F64Tail(s, SkipDigits(s, j + 1))
    ELSE j - i >= 1 /\ F64Tail(s, j)

\* str::parse::<f64> succeeds: on texts over digits, sign, '.', 'e' the std
\* grammar is [sign] (digits ['.' digits*] | '.' digits) ['e' [sign] digits]
F64ParseOk(s) ==
    IF Len(s) >= 1 /\ s[1] \in {"+", "-"}
    THEN F64Mantissa(s, 2, SkipDigits(s, 2))
    ELSE F64Mantissa(s, 1, SkipDigits(s, 1))

\* the integer the digits s[i..j-1] spell (0 when there are none)
RECURSIVE DigitsValue(_, _, _)
DigitsValue(s, i, j) ==
    IF j <= i THEN 0 ELSE DigitsValue(s, i, j - 1) * 10 + HexVal(s[j - 1])

\* the number of decimal digits of m >= 1
RECURSIVE NumDigits(_)
NumDigits(m) == IF m < 10 THEN 1 ELSE 1 + NumDigits(m \div 10)

RECURSIVE Pow10(_)
Pow10(n) == IF n = 0 THEN 1 ELSE 10 * Pow10(n - 1)

\* An f64 is held as the decimal it was converted from: (-1)^neg * m * 10^e
\* with m not divisible by 10, which names the double nearest to it (distinct
\* decimals of up to nine digits name distinct doubles).  Above the largest
\* double the conversion yields infinity, below the smallest it yields zero.
F64(neg, m, e) == [neg |-> neg, m |-> m, e |-> e, inf |-> FALSE]

F64Inf(neg) == [neg |-> neg, m |-> 0, e |-> 0, inf |-> TRUE]

\* the largest double is 1.7976931348623157e308, the smallest 4.9e-324
F64Ranged(neg, m, e, d) ==
    IF d + e > 309 THEN F64Inf(neg)
    ELSE IF d + e = 309 /\ m * Pow10(9 - d) > 179769313 THEN F64Inf(neg)
    ELSE IF d + e < -323 THEN F64(neg, 0, 0)
    ELSE F64(neg, m, e)

\* m * 10^e without the trailing zeros of m
RECURSIVE F64Normal(_, _, _)
F64Normal(neg, m, e) ==
    IF m = 0 THEN F64(neg, 0, 0)
    ELSE IF m % 10 = 0 THEN F64Normal(neg, m \div 10, e + 1)
    ELSE F64Ranged(neg, m, e, NumDigits(m))

\* the exponent of a float text whose tail starts at index t
F64ExpValue(s, t) ==
    IF t > Len(s) THEN 0
    ELSE IF s[t + 1] = "-" THEN 0 - DigitsValue(s, t + 2, Len(s) + 1)
    ELSE IF s[t + 1] = "+" THEN DigitsValue(s, t + 2, Len(s) + 1)
    ELSE DigitsValue(s, t + 1, Len(s) + 1)

\* the digits s[i..j-1] '.' s[j+1..k-1] and the tail from k on
F64WithFraction(s, neg, i, j, k) ==
    F64Normal(neg,
              DigitsValue(s, i, j) * Pow10(k - (j + 1)) + DigitsValue(s, j + 1, k),
              F64ExpValue(s, k) - (k - (j + 1)))

\* a conversion that stops at the first character that is not a digit
F64Unsigned_DigitsOnly(s, neg, i, j) == F64Normal(neg, DigitsValue(s, i, j), 0)

\* the float text from index i on (past its sign), j the end of its first digits
F64Unsigned(s, neg, i, j) ==
    IF j <= Len(s) /\ s[j] = "."
    THEN F64WithFraction(s, neg, i, j, SkipDigits(s, j + 1))
    ELSE F64Normal(neg, DigitsValue(s, i, j), F64ExpValue(s, j))

\* str::parse::<f64> of a text F64ParseOk accepts: the value
F64Value(s) ==
    IF s[1] \in {"+", "-"}
    THEN F64Unsigned(s, s[1] = "-", 2, SkipDigits(s, 2))
    ELSE F64Unsigned(s, FALSE, 1, SkipDigits(s, 1))

\* `nums.parse::<f64>().map_err(|_| self.return_error(CastingError))`
Cast(e) ==
    IF ~e.ok THEN e
    ELSE IF F64ParseOk(e.v) THEN ScanOk(e.lx, F64Value(e.v))
    ELSE ScanErr(e.lx, ErrKind("CastingError"))

\* `self.read_fraction(&mut nums)?; self.read_exponent(&mut nums)?`
ThenExponent(f) == IF ~f.ok THEN f ELSE ReadExponent(f.lx, f.v)

\* `self.read_integer(&mut nums)?; self.read_fraction(&mut nums)?`
ThenFraction(i) == IF ~i.ok THEN i ELSE ReadFraction(i.lx, i.v)

\* read_number up to the conversion: the text accumulated in `nums`, or the
\* error of the part that failed
AccumulatedText(lx) ==
    IF LxPeek(lx) = "-"
    THEN ThenExponent(ThenFraction(ReadInteger(LxAdvance(lx), <<"-">>)))
    ELSE ThenExponent(ThenFraction(ReadInteger(lx, <<>>)))

\* Lexer::read_number
ReadNumber(lx) == Cast(AccumulatedText(lx))

(***************************************************************************)
(* Literal scanning.                                                       *)
(***************************************************************************)
\* the `literal` read_literal matches for the character that started it
LiteralText(b_char) ==
    CASE b_char = "t" -> <<"t", "r", "u", "e">>
      [] b_char = "f" -> <<"f", "a", "l", "s", "e">>
      [] b_char = "n" -> <<"n", "u", "l", "l">>

\* the token kind read_literal returns for the character that started it
LiteralKind(b_char) ==
    CASE b_char = "t" -> Kind("True")
      [] b_char = "f" -> Kind("False")
      [] b_char = "n" -> Kind("Null")

\* the `for expected_char in literal.chars()` loop of read_literal, from index i
RECURSIVE MatchLiteral(_, _, _)
MatchLiteral(lx, literal, i) ==
    IF i > Len(literal) THEN ScanOk(lx, <<>>)
    ELSE IF LxPeek(lx) = literal[i]
         THEN MatchLiteral(LxAdvance(lx), literal, i + 1)
         ELSE ScanErr(lx, ErrKind("InvalidLiteral"))

\* a read_literal that does not look at what follows the literal
AfterLiteral_NoBoundary(m, b_char) ==
    IF ~m.ok THEN m ELSE ScanOk(m.lx, LiteralKind(b_char))

\* read_literal after the match: the character that follows the literal
AfterLiteral(m, b_char) ==
    IF ~m.ok THEN m
    ELSE IF LxPeek(m.lx) # NoChar /\ IsAsciiAlphanumeric(LxPeek(m.lx))
         THEN ScanErr(m.lx, ErrKind("InvalidLiteral"))
         ELSE ScanOk(m.lx, LiteralKind(b_char))

\* Lexer::read_literal
ReadLiteral(lx, b_char) ==
    AfterLiteral(MatchLiteral(lx, LiteralText(b_char), 1), b_char)

(***************************************************************************)
(* next_token and the iterator.  The result is [lx, item]: the lexer after *)
(* the call and the token or error it returned.  The field `start` of an   *)
(* item is not in the code: it records the index of the first character of *)
(* the lexeme, so that positions can be stated against the input.          *)
(***************************************************************************)
\* the single-character tokens of next_token
PunctKind(c) ==
    CASE c = "{" -> Kind("LeftBrace")
      [] c = "}" -> Kind("RightBrace")
      [] c = "[" -> Kind("LeftBracket")
      [] c = "]" -> Kind("RightBracket")
      [] c = ":" -> Kind("Colon")
      [] c = "," -> Kind("Comma")

\* the position a Number, True, False or Null token is given: new_token is
\* called after the sub-scanner has run, on the lexer as it then is
TokenAfterScan(lx0, lx1, kind) == NewToken(lx1, kind, lx0.pos)

\* the position a String token is given: the column saved before read_string,
\* the line as it is after it
StringToken(lx0, lx1, v) ==
    [ok |-> TRUE, none |-> FALSE, kind |-> KindV("String", v),
     line |-> lx1.line, column |-> lx0.column, start |-> lx0.pos]

\* the `'"'` arm of next_token: r is what read_string returned (`?`)
StringArm(lx, r) ==
    IF r.ok THEN [lx |-> r.lx, item |-> StringToken(lx, r.lx, r.v)]
    ELSE [lx |-> r.lx, item |-> ReturnError(r.lx, r.kind, lx.pos)]

\* the digit or '-' arm of next_token: r is what read_number returned (`?`)
NumberArm(lx, r) ==
    IF r.ok THEN [lx |-> r.lx, item |-> TokenAfterScan(lx, r.lx, KindV("Number", r.v))]
    ELSE [lx |-> r.lx, item |-> ReturnError(r.lx, r.kind, lx.pos)]

\* the 'f' | 't' | 'n' arm of next_token: r is what read_literal returned (`?`)
LiteralArm(lx, r) ==
    IF r.ok THEN [lx |-> r.lx, item |-> TokenAfterScan(lx, r.lx, r.v)]
    ELSE [lx |-> r.lx, item |-> ReturnError(r.lx, r.kind, lx.pos)]

\* a last arm that skips the character first and builds the error afterwards
UnexpectedCharArm_SkipFirst(lx, c) ==
    [lx |-> LxAdvance(lx),
     item |-> ReturnError(LxAdvance(lx), ErrKindC("UnexcpectedChar", c), lx.pos)]

\* a last arm that returns the error and leaves the character in the input
UnexpectedCharArm_NoSkip(lx, c) ==
    [lx |-> lx, item |-> ReturnError(lx, ErrKindC("UnexcpectedChar", c), lx.pos)]

\* the last arm of next_token: the error is built, then the character skipped
UnexpectedCharArm(lx, c) ==
    [lx |-> LxAdvance(lx),
     item |-> ReturnError(lx, ErrKindC("UnexcpectedChar", c), lx.pos)]

\* next_token after skip_whitespace: the match on the next character
Dispatch(lx) ==
    LET c == LxPeek(lx)
    IN  IF c = NoChar
        THEN [lx |-> lx, item |-> NewToken(lx, Kind("EOF"), lx.pos)]
        ELSE IF c \in {"{", "}", "[", "]", ":", ","}
        THEN [lx |-> LxAdvance(lx), item |-> NewToken(lx, PunctKind(c), lx.pos)]
        ELSE IF c = "\"" THEN StringArm(lx, ReadString(lx))
        ELSE IF IsAsciiDigit(c) \/ c = "-" THEN NumberArm(lx, ReadNumber(lx))
        ELSE IF c \in {"f", "t", "n"} THEN LiteralArm(lx, ReadLiteral(lx, c))
        ELSE UnexpectedCharArm(lx, c)

\* Lexer::next_token
NextToken(lx) == Dispatch(SkipWhitespace(lx))

\* an iterator that never marks itself finished
IterItem_NeverFinished(r) == r

\* the match of Iterator::next on what next_token returned: EOF sets finished
IterItem(r) ==
    IF r.item.ok /\ r.item.kind.t = "EOF"
    THEN [lx |-> [r.lx EXCEPT !.finished = TRUE], item |-> r.item]
    ELSE r

\* <Lexer as Iterator>::next
LexerNext(lx) ==
    IF lx.finished THEN [lx |-> lx, item |-> NoItem] ELSE IterItem(NextToken(lx))

(***************************************************************************)
(* Values, parser errors and results.                                      *)
(***************************************************************************)
\* JSONValue; the payload of Object is a function from keys to values
Value(t, v) == [t |-> t, v |-> v]

\* the slot `ret` before any call has returned
NoValue == Value("None", <<>>)

\* ParserError::Lexer(error)
LexerErr(item) ==
    [variant |-> "Lexer", kind |-> item.kind, line |-> item.line,
     column |-> item.column]

\* ParserError::Parser { kind, line, column }; `expected` and `found` are the
\* token kinds the ParserErrorKind carries, in order
ParserErr(k, expected, found, line, column) ==
    [variant |-> "Parser",
     kind |-> [k |-> k, expected |-> expected, found |-> found],
     line |-> line, column |-> column]

\* ParserError::pretty_print: the two subtractions it makes on the usize fields
\* of the error, `line - 1` (the index into `lines`) and `column - 1` (the
\* width of the padding before the caret)
PrettyPrintSubtractions(err) == [index |-> err.line - 1, width |-> err.column - 1]

\* PartialEq of TokenKind
KindEq(a, b) == a.t = b.t /\ a.v = b.v

\* the state of the token source: the lexer, the Peekable slot, the histories
IO == [lexer |-> lexer, peeked |-> peeked, pulled |-> pulled, consumed |-> consumed]

(***************************************************************************)
(* The token operations of the parser.  Each returns [tag, io, ...]:       *)
(* Ok with the token, Err with the ParserError, or Panic (unreachable!).   *)
(***************************************************************************)
POk(io, tok) == [tag |-> "Ok", io |-> io, tok |-> tok]

PErr(io, err) == [tag |-> "Err", io |-> io, err |-> err]

PPanic(io) == [tag |-> "Panic", io |-> io]

\* a peek / advance that reports a lexer error as a grammar error of its own
Unwrap_Reinterpreted(io, item) ==
    IF item.none THEN PPanic(io)
    ELSE IF item.ok THEN POk(io, item)
    ELSE PErr(io, ParserErr("UnexpectedEOF", <<>>, <<>>, item.line, item.column))

\* what Parser::peek and Parser::advance make of an item of the iterator
Unwrap(io, item) ==
    IF item.none THEN PPanic(io)
    ELSE IF item.ok THEN POk(io, item)
    ELSE PErr(io, LexerErr(item))

\* Peekable::peek on an empty slot: r is what the iterator's next returned; the
\* item is kept in the slot
PeekFill(io, r) ==
    Unwrap([io EXCEPT !.lexer = r.lx, !.peeked = <<r.item>>,
                      !.pulled = Append(@, r.item)], r.item)

\* Peekable::next on an empty slot: r is what the iterator's next returned
NextPull(io, r) ==
    Unwrap([io EXCEPT !.lexer = r.lx, !.pulled = Append(@, r.item),
                      !.consumed = @ + 1], r.item)

\* a peek that asks the iterator whether or not the slot holds an item
Peek_Refill(io) == PeekFill(io, LexerNext(io.lexer))

\* Parser::peek (and peek_kind, which reads .kind of it), over Peekable::peek
Peek(io) ==
    IF io.peeked # <<>> THEN Unwrap(io, io.peeked[1])
    ELSE PeekFill(io, LexerNext(io.lexer))

\* an advance that drops the item held in the slot and asks the iterator
Advance_PastSlot(io) ==
    NextPull([io EXCEPT !.peeked = <<>>], LexerNext(io.lexer))

\* Parser::advance (and advance_kind), over Peekable::next, which takes the
\* item held in the slot when there is one
Advance(io) ==
    IF io.peeked # <<>>
    THEN Unwrap([io EXCEPT !.peeked = <<>>, !.consumed = @ + 1], io.peeked[1])
    ELSE NextPull(io, LexerNext(io.lexer))

\* an expect that goes on with whatever token it was given
ExpectTest_Lenient(a, kind) == a

\* the test of Parser::expect on the token advance returned
ExpectTest(a, kind) ==
    IF a.tag # "Ok" THEN a
    ELSE IF ~KindEq(a.tok.kind, kind)
         THEN PErr(a.io, ParserErr("ExpectedToken", <<kind>>, <<a.tok.kind>>,
                                   a.tok.line, a.tok.column))
         ELSE a

\* Parser::expect
Expect(io, kind) == ExpectTest(Advance(io), kind)

\* an expect_either that reports the end of the input by a kind of its own
ExpectEitherTest_EOFKind(a, kinds) ==
    IF a.tag # "Ok" THEN a
    ELSE IF KindEq(a.tok.kind, Kind("EOF"))
         THEN PErr(a.io, ParserErr("UnexpectedEOF", <<>>, <<>>,
                                   a.tok.line, a.tok.column))
    ELSE IF ~(\E i \in 1..Len(kinds) : KindEq(kinds[i], a.tok.kind))
         THEN PErr(a.io, ParserErr("ExpectedOneOfTokens", kinds, <<a.tok.kind>>,
                                   a.tok.line, a.tok.column))
         ELSE a

\* the test of Parser::expect_either on the token advance returned
ExpectEitherTest(a, kinds) ==
    IF a.tag # "Ok" THEN a
    ELSE IF ~(\E i \in 1..Len(kinds) : KindEq(kinds[i], a.tok.kind))
         THEN PErr(a.io, ParserErr("ExpectedOneOfTokens", kinds, <<a.tok.kind>>,
                                   a.tok.line, a.tok.column))
         ELSE a

\* Parser::expect_either
ExpectEither(io, kinds) == ExpectEitherTest(Advance(io), kinds)

(***************************************************************************)
(* The call stack.  A frame is [fn, pc, acc, key]: the function, the place *)
(* in it, the map or the vector it is building and the key it holds.       *)
(***************************************************************************)
Frame(fn, pc, acc) == [fn |-> fn, pc |-> pc, acc |-> acc, key |-> <<>>]

Top == stack[Len(stack)]

Running == result.tag = "Running"

At(fn, pc) == Running /\ stack # <<>> /\ Top.fn = fn /\ Top.pc = pc

ReplaceTop(st, f) == [st EXCEPT ![Len(st)] = f]

Pop(st) == SubSeq(st, 1, Len(st) - 1)

\* an insert that keeps the entry a key already has
MapInsert_KeepFirst(m, k, v) ==
    [x \in DOMAIN m \cup {k} |-> IF x \in DOMAIN m THEN m[x] ELSE v]

\* HashMap::insert
MapInsert(m, k, v) == [x \in DOMAIN m \cup {k} |-> IF x = k THEN v ELSE m[x]]

\* HashMap::with_capacity(8): the empty map
EmptyMap == [x \in {} |-> NoValue]

\* the token source after the step
SetIO(io) ==
    /\ lexer' = io.lexer
    /\ peeked' = io.peeked
    /\ pulled' = io.pulled
    /\ consumed' = io.consumed

\* the step goes on: the token source and the stack after it
Continue(io, st) ==
    /\ SetIO(io)
    /\ stack' = st
    /\ UNCHANGED <<input, ret, result>>

\* a call returns v to its caller
Return(io, v) ==
    /\ SetIO(io)
    /\ stack' = Pop(stack)
    /\ ret' = v
    /\ UNCHANGED <<input, result>>

\* `?` on an Err (every caller up to parse propagates it) or unreachable!
Abort(o) ==
    /\ SetIO(o.io)
    /\ stack' = <<>>
    /\ result' = IF o.tag = "Panic" THEN [tag |-> "Panic"]
                 ELSE [tag |-> "Err", err |-> o.err]
    /\ UNCHANGED <<input, ret>>

(***************************************************************************)
(* Parser::parse.                                                          *)
(***************************************************************************)
\* parse: `let value = self.parse_value()?` is called
Parse ==
    /\ At("parse", "start")
    /\ Continue(IO, Append(ReplaceTop(stack, Frame("parse", "expect_eof", <<>>)),
                           Frame("parse_value", "start", <<>>)))

\* a parse that returns the value without looking at what follows it
ParseExpectEOF_Absent ==
    /\ At("parse", "expect_eof")
    /\ SetIO(IO)
    /\ stack' = <<>>
    /\ result' = [tag |-> "Ok", value |-> ret]
    /\ UNCHANGED <<input, ret>>

\* parse: parse_value has returned; `self.expect(TokenKind::EOF)?; Ok(value)`
ParseExpectEOF ==
    /\ At("parse", "expect_eof")
    /\ \E e \in {Expect(IO, Kind("EOF"))} :
          IF e.tag # "Ok" THEN Abort(e)
          ELSE /\ SetIO(e.io)
               /\ stack' = <<>>
               /\ result' = [tag |-> "Ok", value |-> ret]
               /\ UNCHANGED <<input, ret>>

(***************************************************************************)
(* Parser::parse_value.                                                    *)
(***************************************************************************)
\* the `if let TokenKind::String(s) = self.advance_kind()? {..} else
\* {unreachable!()}` of the String and Number arms; the other scalar arms
\* take the token without looking at it
ScalarTest(a, t) ==
    IF a.tag # "Ok" THEN a
    ELSE IF t \in {"String", "Number"} /\ a.tok.kind.t # t THEN PPanic(a.io)
    ELSE a

\* the JSONValue a scalar arm builds: the payload is that of the token taken
ScalarValue(t, kind) ==
    CASE t = "String" -> Value("String", kind.v)
      [] t = "Number" -> Value("Number", kind.v)
      [] t = "True" -> Value("Bool", TRUE)
      [] t = "False" -> Value("Bool", FALSE)
      [] t = "Null" -> Value("Null", <<>>)

\* the scalar arms of parse_value, the token of kind t having been peeked
ScalarArm(io, t) ==
    \E a \in {ScalarTest(Advance(io), t)} :
       IF a.tag # "Ok" THEN Abort(a)
       ELSE Return(a.io, ScalarValue(t, a.tok.kind))

\* parse_value: `let token = self.peek()?; match &token.kind`
ParseValue ==
    /\ At("parse_value", "start")
    /\ \E p \in {Peek(IO)} :
          IF p.tag # "Ok" THEN Abort(p)
          ELSE IF p.tok.kind.t = "LeftBrace"
          THEN Continue(p.io, ReplaceTop(stack, Frame("parse_object", "open", EmptyMap)))
          ELSE IF p.tok.kind.t = "LeftBracket"
          THEN Continue(p.io, ReplaceTop(stack, Frame("parse_array", "open", <<>>)))
          ELSE IF p.tok.kind.t \in {"String", "Number", "True", "False", "Null"}
          THEN ScalarArm(p.io, p.tok.kind.t)
          ELSE Abort(PErr(p.io, ParserErr("UnexpectedToken", <<>>, <<p.tok.kind>>,
                                          p.tok.line, p.tok.column)))

(***************************************************************************)
(* Parser::parse_object.                                                   *)
(***************************************************************************)
\* `if *self.peek_kind()? != RightBrace { loop {`: the loop is entered, or not
ObjectFirst(io) ==
    \E p \in {Peek(io)} :
       IF p.tag # "Ok" THEN Abort(p)
       ELSE IF ~KindEq(p.tok.kind, Kind("RightBrace"))
            THEN Continue(p.io, ReplaceTop(stack, [Top EXCEPT !.pc = "key"]))
            ELSE Continue(p.io, ReplaceTop(stack, [Top EXCEPT !.pc = "close"]))

\* `self.expect(LeftBrace)?`, then the test for the empty object
ObjectOpen ==
    /\ At("parse_object", "open")
    /\ \E e \in {Expect(IO, Kind("LeftBrace"))} :
          IF e.tag # "Ok" THEN Abort(e) ELSE ObjectFirst(e.io)

\* `let token = self.advance()?; let key = match token.kind { String(s) => s, ..`
ObjectKey ==
    /\ At("parse_object", "key")
    /\ \E a \in {Advance(IO)} :
          IF a.tag # "Ok" THEN Abort(a)
          ELSE IF a.tok.kind.t = "String"
               THEN Continue(a.io, ReplaceTop(stack,
                       [Top EXCEPT !.pc = "colon", !.key = a.tok.kind.v]))
               ELSE Abort(PErr(a.io, ParserErr("ExpectedToken",
                       <<KindV("String", <<>>)>>, <<a.tok.kind>>,
                       a.tok.line, a.tok.column)))

\* `self.expect(Colon)?; let value = self.parse_value()?` is called
ObjectColon ==
    /\ At("parse_object", "colon")
    /\ \E e \in {Expect(IO, Kind("Colon"))} :
          IF e.tag # "Ok" THEN Abort(e)
          ELSE Continue(e.io, Append(ReplaceTop(stack, [Top EXCEPT !.pc = "insert"]),
                                     Frame("parse_value", "start", <<>>)))

\* an `other =>` arm that takes the token out of the slot to report it
ObjectOther_Taken(io, found) ==
    \E q \in {Advance(io)} :
       IF q.tag # "Ok" THEN Abort(q)
       ELSE Abort(PErr(q.io, ParserErr("ExpectedObjectEndOrComma", <<>>, <<found>>,
                                       q.tok.line, q.tok.column)))

\* the `other =>` arm after a member: the error takes its line and its column
\* from two more calls of peek
ObjectOther(io, found) ==
    \E q \in {Peek(io)} :
       IF q.tag # "Ok" THEN Abort(q)
       ELSE Abort(PErr(q.io, ParserErr("ExpectedObjectEndOrComma", <<>>, <<found>>,
                                       q.tok.line, q.tok.column)))

\* the `Comma =>` arm after a member: `self.advance()?`, and the loop goes on
ObjectComma(io, f) ==
    \E a \in {Advance(io)} :
       IF a.tag # "Ok" THEN Abort(a)
       ELSE Continue(a.io, ReplaceTop(stack, [f EXCEPT !.pc = "key"]))

\* parse_value has returned: `map.insert(key, value); match self.peek_kind()?`
ObjectInsert ==
    /\ At("parse_object", "insert")
    /\ \E p \in {Peek(IO)}, f \in {[Top EXCEPT !.acc = MapInsert(@, Top.key, ret)]} :
          IF p.tag # "Ok" THEN Abort(p)
          ELSE IF p.tok.kind.t = "Comma" THEN ObjectComma(p.io, f)
          ELSE IF p.tok.kind.t = "RightBrace"
               THEN Continue(p.io, ReplaceTop(stack, [f EXCEPT !.pc = "close"]))
          ELSE ObjectOther(p.io, p.tok.kind)

\* `self.expect(RightBrace)?; Ok(JSONValue::Object(map))`
ObjectClose ==
    /\ At("parse_object", "close")
    /\ \E e \in {Expect(IO, Kind("RightBrace"))} :
          IF e.tag # "Ok" THEN Abort(e)
          ELSE Return(e.io, Value("Object", Top.acc))

(***************************************************************************)
(* Parser::parse_array.                                                    *)
(***************************************************************************)
\* `self.expect(LeftBracket)?; let mut arr = Vec::with_capacity(8)`
ArrayOpen ==
    /\ At("parse_array", "open")
    /\ \E e \in {Expect(IO, Kind("LeftBracket"))} :
          IF e.tag # "Ok" THEN Abort(e)
          ELSE Continue(e.io, ReplaceTop(stack, [Top EXCEPT !.pc = "loop"]))

\* `while *self.peek_kind()? != RightBracket {`: parse_value is called, or the
\* loop is left
ArrayLoop ==
    /\ At("parse_array", "loop")
    /\ \E p \in {Peek(IO)} :
          IF p.tag # "Ok" THEN Abort(p)
          ELSE IF ~KindEq(p.tok.kind, Kind("RightBracket"))
               THEN Continue(p.io, Append(ReplaceTop(stack, [Top EXCEPT !.pc = "push"]),
                                          Frame("parse_value", "start", <<>>)))
               ELSE Continue(p.io, ReplaceTop(stack, [Top EXCEPT !.pc = "close"]))

\* a parse_array that takes the separator and does not look at what follows it
TrailingCommaTest_Absent(io, token, f) ==
    \E q \in {Peek(io)} :
       IF q.tag # "Ok" THEN Abort(q) ELSE Continue(q.io, ReplaceTop(stack, f))

\* a trailing-comma test that reports the bracket it has just peeked, not the
\* comma held in `token`
TrailingCommaTest_AtBracket(io, token, f) ==
    \E q \in {Peek(io)} :
       IF q.tag # "Ok" THEN Abort(q)
       ELSE IF KindEq(q.tok.kind, Kind("RightBracket"))
            THEN Abort(PErr(q.io, ParserErr("TrailingComma", <<>>, <<>>,
                                            q.tok.line, q.tok.column)))
            ELSE Continue(q.io, ReplaceTop(stack, f))

\* `if *self.peek_kind()? == RightBracket { return Err(TrailingComma at token)`
TrailingCommaTest(io, token, f) ==
    \E q \in {Peek(io)} :
       IF q.tag # "Ok" THEN Abort(q)
       ELSE IF KindEq(q.tok.kind, Kind("RightBracket"))
            THEN Abort(PErr(q.io, ParserErr("TrailingComma", <<>>, <<>>,
                                            token.line, token.column)))
            ELSE Continue(q.io, ReplaceTop(stack, f))

\* `let token = self.expect_either(&[Comma, RightBracket])?`, then the test
ArraySeparator(io, f) ==
    \E e \in {ExpectEither(io, <<Kind("Comma"), Kind("RightBracket")>>)} :
       IF e.tag # "Ok" THEN Abort(e) ELSE TrailingCommaTest(e.io, e.tok, f)

\* a parse_array that puts each element in front of those it already has
ArrayPush_InFront ==
    /\ At("parse_array", "push")
    /\ \E p \in {Peek(IO)}, f \in {[Top EXCEPT !.acc = <<ret>> \o @, !.pc = "loop"]} :
          IF p.tag # "Ok" THEN Abort(p)
          ELSE IF ~KindEq(p.tok.kind, Kind("RightBracket"))
               THEN ArraySeparator(p.io, f)
               ELSE Continue(p.io, ReplaceTop(stack, f))

\* a parse_array that, when the next token is not RightBracket, takes no
\* separator and pushes again
ArrayPush_Again ==
    /\ At("parse_array", "push")
    /\ \E p \in {Peek(IO)}, f \in {[Top EXCEPT !.acc = Append(@, ret), !.pc = "loop"]} :
          IF p.tag # "Ok" THEN Abort(p)
          ELSE IF ~KindEq(p.tok.kind, Kind("RightBracket"))
               THEN Continue(p.io, ReplaceTop(stack, [f EXCEPT !.pc = "push"]))
               ELSE Continue(p.io, ReplaceTop(stack, f))

\* parse_value has returned: `arr.push(..)`, and when the next token is not
\* RightBracket the separator is taken
ArrayPush ==
    /\ At("parse_array", "push")
    /\ \E p \in {Peek(IO)}, f \in {[Top EXCEPT !.acc = Append(@, ret), !.pc = "loop"]} :
          IF p.tag # "Ok" THEN Abort(p)
          ELSE IF ~KindEq(p.tok.kind, Kind("RightBracket"))
               THEN ArraySeparator(p.io, f)
               ELSE Continue(p.io, ReplaceTop(stack, f))

\* `self.advance()?; Ok(JSONValue::Array(arr))`
ArrayClose ==
    /\ At("parse_array", "close")
    /\ \E a \in {Advance(IO)} :
          IF a.tag # "Ok" THEN Abort(a)
          ELSE Return(a.io, Value("Array", Top.acc))

(***************************************************************************)
(* The inputs.  An enumerated input is the concatenation of at most        *)
(* MaxChunks lexemes; the lexer sees only its characters, so adjacent      *)
(* lexemes may fuse (`0` `1` is the text 01, `true` `1` the text true1).   *)
(* The sample inputs are longer texts, taken from the tests and examples.  *)
(***************************************************************************)
Q == "\""

StrA == <<Q, "a", Q>>

StrB == <<Q, "b", Q>>

TrueText == <<"t", "r", "u", "e">>

NullText == <<"n", "u", "l", "l">>

FalseText == <<"f", "a", "l", "s", "e">>

Chunks ==
    {<<"{">>, <<"}">>, <<"[">>, <<"]">>, <<":">>, <<",">>,
     StrA, <<"0">>, TrueText, <<NL>>}

RECURSIVE Flatten(_)
Flatten(cs) == IF cs = <<>> THEN <<>> ELSE Head(cs) \o Flatten(Tail(cs))

ChunkInputs(chunks, n) ==
    {Flatten(cs) : cs \in UNION {[1..k -> chunks] : k \in 0..n}}

SampleInputs ==
    {<<"{">> \o StrA \o <<":", "1", ",", "}">>,
     <<"{">> \o StrA \o <<":", "1", "}">>,
     <<"{">> \o StrA \o <<":", "[", "1", "]", ",">> \o StrB \o <<":">> \o NullText \o <<"}">>,
     <<"{">> \o StrA \o <<":", "1", ",">> \o StrA \o <<":">> \o NullText \o <<"}">>,
     <<"{">> \o StrA \o <<":", "1", " ">> \o StrA \o <<"}">>,
     <<"{">> \o StrA \o <<" ", "1", "}">>,
     <<"[", "1", ",", "1", ",", "]">>,
     <<"[", "[", "1", ",", "]", "]">>,
     <<"[", "{", "}", ",", "]">>,
     <<"[", "1", ",", NL, "1", ",", NL, " ", "]">>,
     <<"[">> \o FalseText \o <<",">> \o NullText \o <<"]">>,
     <<"1", "2", "3", " ", "4", "5", "6">>,
     <<"[", NL, "1", ",", NL, " ">> \o TrueText \o <<" ">> \o FalseText \o <<"]">>,
     <<"{", NL>> \o StrA \o <<NL, " ", "1", "2">>,
     <<"[", "1", " ", "@", "]">>,
     <<" ", "-", "0", "1">>,
     <<"[", "1", ",", "[", "0", ",">> \o TrueText \o <<"]", ",", "{">> \o StrA
        \o <<":", "[", "]", "}", "]">>,
     <<"{">> \o StrA \o <<":", "{">> \o StrB \o <<":", "[", "1", ",", "0", "]", "}", ",">>
        \o StrB \o <<":">> \o StrA \o <<",">> \o StrA \o <<":", "0", "}">>}

\* the pieces of number texts
NumChunks ==
    {<<"-">>, <<"0">>, <<"1">>, <<"2">>, <<".">>, <<"e">>, <<"E">>, <<"+">>}

NumberTexts(n) == ChunkInputs(NumChunks, n)

NumberSamples ==
    {<<"4", "2">>,
     <<"3", ".", "1", "4">>,
     <<"-", "1", ".", "5", "e", "+", "2">>,
     <<"1", "2", "0", "0", "E", "-", "2">>,
     <<"0", ".", "0", "1", "0">>,
     <<"-", "0", ".", "0", "e", "1">>,
     <<"1", ".", "e", "5">>,
     <<"1", "e", "+", ",">>}

BS == "\\"

\* the pieces of string bodies: the escapes, hex digits, plain characters,
\* raw control characters and the quote
StrChunks ==
    {<<BS, Q>>, <<BS, BS>>, <<BS, "/">>, <<BS, "b">>, <<BS, "f">>, <<BS, "n">>,
     <<BS, "r">>, <<BS, "t">>, <<BS, "u">>, <<BS, "x">>, <<BS>>,
     <<"0", "0", "4", "1">>, <<"D", "8", "0", "0">>, <<"0", "0">>, <<"g">>, <<"a">>,
     <<TAB>>, <<NL>>, <<CR>>, <<"\f">>, <<Q>>}

\* an opening quote, a body, and a closing quote or none
StringTexts(n) ==
    {<<Q>> \o b \o t : b \in ChunkInputs(StrChunks, n), t \in {<<>>, <<Q>>}}

StringSamples ==
    {<<Q, BS, "n", BS, "t", BS, "u", "0", "0", "4", "1", Q>>,
     <<Q, BS, "u", "D", "7", "F", "F", Q>>,
     <<Q, BS, "u", "D", "F", "F", "F", Q>>,
     <<Q, BS, "u", "E", "0", "0", "0", Q>>,
     <<Q, BS, "u", "0", "0", "e", "9", "a", Q>>,
     <<Q, BS, "u", "0", "0", "4">>,
     <<Q, "a", BS, "u", "4", "1", Q>>,
     <<Q, "a", NL, "a", BS, "u">>}

\* the input is one of the texts, alone or between whitespace
Surrounded(texts) ==
    \E t \in texts, w \in {<<>>, <<" ", NL, TAB, " ">>} :
       input = SubSeq(w, 1, Len(w) \div 2) \o t \o SubSeq(w, Len(w) \div 2 + 1, Len(w))

\* the input is one scalar text made of n (a number) or m (a string) pieces, a
\* sample or a literal, alone or between whitespace
ScalarInput(n, m) ==
    \/ Surrounded(NumberTexts(n))
    \/ Surrounded(StringTexts(m))
    \/ Surrounded(NumberSamples \cup StringSamples \cup {TrueText, FalseText, NullText})

\* the inputs of the parser runs
Inputs ==
    \/ input \in ChunkInputs(Chunks, MaxChunks)
    \/ input \in SampleInputs
    \/ ScalarInput(MaxNumChunks, MaxStrChunks)

(***************************************************************************)
(* The parse of one input: parse_json(input).                              *)
(***************************************************************************)
\* Lexer::new(input), Parser::new(lexer)
Init ==
    /\ Inputs
    /\ lexer = LexerNew
    /\ peeked = <<>>
    /\ stack = <<Frame("parse", "start", <<>>)>>
    /\ ret = NoValue
    /\ result = [tag |-> "Running"]
    /\ pulled = <<>>
    /\ consumed = 0

Next ==
    \/ Parse
    \/ ParseExpectEOF
    \/ ParseValue
    \/ ObjectOpen
    \/ ObjectKey
    \/ ObjectColon
    \/ ObjectInsert
    \/ ObjectClose
    \/ ArrayOpen
    \/ ArrayLoop
    \/ ArrayPush
    \/ ArrayClose

Spec == Init /\ [][Next]_vars

\* parse is one sequential call: while it has not returned, its next step is
\* taken.  This is the weak fairness of Next, WF_vars(Next), with "a step of
\* Next is possible" written as Running: every position of a running call has
\* its action, and each action has an outcome whatever the tokens are.
FairSpec == Spec /\ ([]<>(~Running) \/ []<><<Next>>_vars)

(***************************************************************************)
(* The scan of one input by a caller that drives the lexer alone, through  *)
(* its Iterator: next() until it returns None.                             *)
(***************************************************************************)
\* the number of lexemes an enumerated input of the lexer-only runs is made of
MaxLexChunks == 3

\* the number of calls of next() the caller makes after the iterator has ended
MaxNoneCalls == 2

LexChunks == Chunks \cup {<<"-">>, <<"@">>, NullText, FalseText}

\* literals that are cut short, misspelt or run into a letter or a digit
LiteralSamples ==
    { <<"t", "r", "u", "e", "x">>,
      <<"n", "u", "l", "l", "1">>,
      <<"t", "r", "u">>,
      <<"n", "u", "l", ",">>,
      <<"f", "a", "l", "z", "e">>,
      <<"f", "a", "l", "s", "e", "_">>,
      <<"[", "t", "r", "u", "e", ",", "n", "u", "l", "l", "1">>,
      <<"t", "r", "u", "e", " ", "f", "a", "l", "s", "e">> }

\* the inputs of the lexer-only runs
LexInputs ==
    \/ input \in ChunkInputs(LexChunks, MaxLexChunks)
    \/ input \in SampleInputs
    \/ input \in LiteralSamples
    \/ ScalarInput(MaxNumChunks, MaxStrChunks)

\* Lexer::new(input); there is no parser
LexInit ==
    /\ LexInputs
    /\ lexer = LexerNew
    /\ peeked = <<>>
    /\ stack = <<>>
    /\ ret = NoValue
    /\ result = [tag |-> "Running"]
    /\ pulled = <<>>
    /\ consumed = 0

\* the calls of next() so far that returned None
NoneCalls(items) == Cardinality({i \in 1..Len(items) : items[i].none})

\* one call of <Lexer as Iterator>::next by the caller
LexerPull ==
    /\ stack = <<>>
    /\ NoneCalls(pulled) < MaxNoneCalls
    /\ \E r \in {LexerNext(lexer)} :
          /\ lexer' = r.lx
          /\ pulled' = Append(pulled, r.item)
    /\ UNCHANGED <<input, peeked, stack, ret, result, consumed>>

LexNext == LexerPull

LexSpec == LexInit /\ [][LexNext]_vars

(***************************************************************************)
(* What the properties are stated against: positions in the text, the      *)
(* items of the whole input, and the JSON grammar over token kinds.        *)
(***************************************************************************)
\* the 1-based line of the character at index i of the input
LineAt(i) == 1 + Cardinality({j \in 1..(i - 1) : input[j] = NL})

\* the 1-based column of the character at index i of the input
ColAt(i) ==
    IF \E j \in 1..(i - 1) : input[j] = NL
    THEN i - (CHOOSE j \in 1..(i - 1) :
                 input[j] = NL /\ \A k \in (j + 1)..(i - 1) : input[k] # NL)
    ELSE i

RECURSIVE LexAllFrom(_)

LexAllCons(r) == IF r.item.none THEN <<>> ELSE <<r.item>> \o LexAllFrom(r.lx)

\* every item the iterator yields on the input, errors included, up to None
LexAllFrom(lx) == LexAllCons(LexerNext(lx))

AllItems == LexAllFrom(LexerNew)

IsErrorItem(it) == ~it.ok /\ ~it.none

\* the kind of an item as the grammar sees it
ItemType(it) == IF it.ok THEN it.kind.t ELSE "LexError"

ItemTypes(items) == [i \in 1..Len(items) |-> ItemType(items[i])]

ScalarTypes == {"String", "Number", "True", "False", "Null"}

\* The grammar
\*   value := String | Number | True | False | Null
\*          | '{' [ String ':' value ( ',' String ':' value )* ] '}'
\*          | '[' [ value ( ',' value )* ] ']'
\*   text  := value EOF
\* as a pushdown recogniser: `open` holds the containers that are open ("O" or
\* "A"), `mode` says what may come next.
GStart == [mode |-> "value", open |-> <<>>]

GReject == [mode |-> "reject", open |-> <<>>]

\* a value is complete: what may follow it
GAfterValue(open) ==
    [mode |-> IF open = <<>> THEN "end"
              ELSE IF open[Len(open)] = "O" THEN "obj_next" ELSE "arr_next",
     open |-> open]

GClose(open) == GAfterValue(SubSeq(open, 1, Len(open) - 1))

GValue(g, t) ==
    IF t \in ScalarTypes THEN GAfterValue(g.open)
    ELSE IF t = "LeftBrace" THEN [mode |-> "obj_first", open |-> Append(g.open, "O")]
    ELSE IF t = "LeftBracket" THEN [mode |-> "arr_first", open |-> Append(g.open, "A")]
    ELSE GReject

GStep(g, t) ==
    CASE g.mode = "value" -> GValue(g, t)
      [] g.mode = "arr_first" -> IF t = "RightBracket" THEN GClose(g.open) ELSE GValue(g, t)
      [] g.mode = "obj_first" ->
            IF t = "RightBrace" THEN GClose(g.open)
            ELSE IF t = "String" THEN [g EXCEPT !.mode = "colon"] ELSE GReject
      [] g.mode = "key" -> IF t = "String" THEN [g EXCEPT !.mode = "colon"] ELSE GReject
      [] g.mode = "colon" -> IF t = "Colon" THEN [g EXCEPT !.mode = "value"] ELSE GReject
      [] g.mode = "obj_next" ->
            IF t = "Comma" THEN [g EXCEPT !.mode = "key"]
            ELSE IF t = "RightBrace" THEN GClose(g.open) ELSE GReject
      [] g.mode = "arr_next" ->
            IF t = "Comma" THEN [g EXCEPT !.mode = "value"]
            ELSE IF t = "RightBracket" THEN GClose(g.open) ELSE GReject
      [] g.mode = "end" -> IF t = "EOF" THEN [g EXCEPT !.mode = "accept"] ELSE GReject
      [] OTHER -> GReject

\* the recogniser after the first n of the kinds ts
RECURSIVE GAfter(_, _)
GAfter(ts, n) == IF n = 0 THEN GStart ELSE GStep(GAfter(ts, n - 1), ts[n])

\* ts is exactly one JSON value followed by EOF
GAccepts(ts) == GAfter(ts, Len(ts)).mode = "accept"

\* ts can still become a JSON text
GViable(ts) == GAfter(ts, Len(ts)).mode # "reject"

Done == result.tag # "Running"

IsOk == result.tag = "Ok"

IsErr == result.tag = "Err"

IsParserErr(k) == IsErr /\ result.err.variant = "Parser" /\ result.err.kind.k = k

IsLexerErr == IsErr /\ result.err.variant = "Lexer"

(***************************************************************************)
(* C1.  parse returns a value if and only if the items of the whole input  *)
(* hold no lexer error and are exactly one JSON value followed by EOF;     *)
(* every other input yields an error.                                      *)
(***************************************************************************)
C1_ValueIffGrammar ==
    Done =>
       LET items == AllItems
       IN  /\ IsOk <=> (/\ \A i \in 1..Len(items) : items[i].ok
                        /\ GAccepts(ItemTypes(items)))
           /\ ~IsOk => IsErr

\* a text with a nested container has been parsed to a value
C1_Witness ==
    /\ IsOk
    /\ result.value.t = "Object"
    /\ \E k \in DOMAIN result.value.v : result.value.v[k].t = "Array"

(***************************************************************************)
(* C2.  When the items of the input are a complete value followed by       *)
(* anything but EOF, parse returns an error for that following item (the   *)
(* token found where EOF was expected, or the lexer's error) and never the *)
(* value.                                                                  *)
(***************************************************************************)
C2_TrailingContentRejected ==
    Done =>
       LET items == AllItems
           ts == ItemTypes(items)
       IN  \A k \in 1..(Len(items) - 1) :
              (/\ \A i \in 1..k : items[i].ok
               /\ GAfter(ts, k).mode = "end"
               /\ ts[k + 1] # "EOF")
              => /\ IsErr
                 /\ Len(pulled) = k + 1
                 /\ result.err =
                       IF items[k + 1].ok
                       THEN ParserErr("ExpectedToken", <<Kind("EOF")>>,
                                      <<items[k + 1].kind>>,
                                      items[k + 1].line, items[k + 1].column)
                       ELSE LexerErr(items[k + 1])

\* a number was found where EOF was expected
C2_Witness ==
    /\ IsParserErr("ExpectedToken")
    /\ result.err.kind.expected = <<Kind("EOF")>>
    /\ result.err.kind.found[1].t = "Number"
    /\ consumed >= 2

(***************************************************************************)
(* C3.  In an array, a ',' after an element that is immediately followed   *)
(* by ']' makes parse fail with TrailingComma at the line and column of    *)
(* that comma, whatever came before it and however deep the array is.      *)
(***************************************************************************)
C3_ArrayTrailingComma ==
    Done =>
       LET items == AllItems
           ts == ItemTypes(items)
       IN  \A k \in 2..(Len(items) - 1) :
              (/\ \A i \in 1..(k + 1) : items[i].ok
               /\ GAfter(ts, k - 1).mode = "arr_next"
               /\ ts[k] = "Comma"
               /\ ts[k + 1] = "RightBracket")
              => result = [tag |-> "Err",
                           err |-> ParserErr("TrailingComma", <<>>, <<>>,
                                             LineAt(items[k].start),
                                             ColAt(items[k].start))]

\* a trailing comma on a later line, after more than one element
C3_Witness ==
    /\ IsParserErr("TrailingComma")
    /\ result.err.line >= 2
    /\ consumed >= 5

(***************************************************************************)
(* C4.  In an object, a ',' after a member that is immediately followed by *)
(* '}' makes parse fail with TrailingComma, as in the array case.          *)
(***************************************************************************)
C4_ObjectTrailingComma ==
    Done =>
       LET items == AllItems
           ts == ItemTypes(items)
       IN  \A k \in 2..(Len(items) - 1) :
              (/\ \A i \in 1..(k + 1) : items[i].ok
               /\ GAfter(ts, k - 1).mode = "obj_next"
               /\ ts[k] = "Comma"
               /\ ts[k + 1] = "RightBrace")
              => IsParserErr("TrailingComma")

(***************************************************************************)
(* C5.  A bare number that starts with 0 followed by a digit fails with    *)
(* the lexer's LeadingZero.  The position reported is that of the digit    *)
(* after the 0 (column 2 for `01`), not that of the number's first         *)
(* character.                                                              *)
(***************************************************************************)
\* the index of the first character of the input that is not whitespace
FirstLexeme ==
    CHOOSE s \in 1..(Len(input) + 1) :
       /\ \A i \in 1..(s - 1) : IsWhitespace(input[i])
       /\ s <= Len(input) => ~IsWhitespace(input[s])

\* the index of the 0 of a number that starts at s, past its sign
ZeroIndex(s) == IF s <= Len(input) /\ input[s] = "-" THEN s + 1 ELSE s

\* the number that starts at s has a 0 followed by a digit as its integer part
HasLeadingZero(s) ==
    /\ ZeroIndex(s) + 1 <= Len(input)
    /\ input[ZeroIndex(s)] = "0"
    /\ input[ZeroIndex(s) + 1] \in Digits

LeadingZeroAt(i) ==
    [tag |-> "Err",
     err |-> [variant |-> "Lexer", kind |-> ErrKind("LeadingZero"),
              line |-> LineAt(i), column |-> ColAt(i)]]

\* C5 as amended: the error is at the digit that follows the 0
C5_LeadingZeroAtNextDigit ==
    /\ (Done /\ HasLeadingZero(FirstLexeme))
          => result = LeadingZeroAt(ZeroIndex(FirstLexeme) + 1)
    /\ (IsLexerErr /\ result.err.kind.k = "LeadingZero")
          => /\ HasLeadingZero(pulled[Len(pulled)].start)
             /\ result = LeadingZeroAt(ZeroIndex(pulled[Len(pulled)].start) + 1)

\* C5 as stated: the error is at the first character of the number
C5_LeadingZeroAtFirstChar ==
    (Done /\ HasLeadingZero(FirstLexeme)) => result = LeadingZeroAt(FirstLexeme)

\* a bare number with a leading zero has been rejected
C5_Witness ==
    /\ HasLeadingZero(FirstLexeme)
    /\ IsLexerErr
    /\ result.err.kind.k = "LeadingZero"
    /\ Len(pulled) = 1

(***************************************************************************)
(* C6.  A grammar error of kind UnexpectedToken, ExpectedToken,            *)
(* ExpectedOneOfTokens or ExpectedObjectEndOrComma carries the line and    *)
(* column of the first character of the offending token (the token the     *)
(* parser looked at last).                                                 *)
(***************************************************************************)
C6_GrammarErrorAtTokenStart ==
    (/\ IsErr
     /\ result.err.variant = "Parser"
     /\ result.err.kind.k \in {"UnexpectedToken", "ExpectedToken",
                               "ExpectedOneOfTokens", "ExpectedObjectEndOrComma"})
    => /\ result.err.line = LineAt(pulled[Len(pulled)].start)
       /\ result.err.column = ColAt(pulled[Len(pulled)].start)

(***************************************************************************)
(* C7.  Every token the lexer returns carries the line and column of its   *)
(* first character.                                                        *)
(***************************************************************************)
C7_TokenAtFirstChar ==
    \A i \in 1..Len(pulled) :
       pulled[i].ok => /\ pulled[i].line = LineAt(pulled[i].start)
                       /\ pulled[i].column = ColAt(pulled[i].start)

(***************************************************************************)
(* C8.  A lexer error the parser meets is returned at once as              *)
(* ParserError::Lexer with the kind, line and column the lexer gave it;    *)
(* and a ParserError::Lexer is never anything but the lexer's last item.   *)
(***************************************************************************)
C8_LexerErrorWrapped ==
    /\ \A i \in 1..Len(pulled) :
          IsErrorItem(pulled[i]) =>
             /\ i = Len(pulled)
             /\ result = [tag |-> "Err",
                          err |-> [variant |-> "Lexer", kind |-> pulled[i].kind,
                                   line |-> pulled[i].line,
                                   column |-> pulled[i].column]]
    /\ IsLexerErr => (pulled # <<>> /\ IsErrorItem(pulled[Len(pulled)]))

\* a lexer error met inside an array, after tokens have been consumed
C8_Witness ==
    /\ IsLexerErr
    /\ result.err.kind.k = "UnexcpectedChar"
    /\ consumed >= 2

(***************************************************************************)
(* C9.  The first error aborts the parse: when parse returns an error, the *)
(* lexer has been asked for the items of the input up to the first         *)
(* offending one and no further, every item before it is a token and       *)
(* together they can still become a JSON text, the error is the lexer's    *)
(* when that item is a lexer error and a grammar error when it is a token  *)
(* the grammar cannot take, and parse does nothing after it.               *)
(***************************************************************************)
C9_FirstErrorAborts ==
    IsErr =>
       LET n == Len(pulled)
           items == AllItems
           ts == ItemTypes(pulled)
       IN  /\ n >= 1
           /\ n <= Len(items)
           /\ pulled = SubSeq(items, 1, n)
           /\ \A i \in 1..(n - 1) : pulled[i].ok
           /\ GViable(SubSeq(ts, 1, n - 1))
           /\ IF pulled[n].ok
              THEN ~GViable(ts) /\ result.err.variant = "Parser"
              ELSE result.err.variant = "Lexer"
           /\ ~ENABLED Next

\* an error returned while items of the input are still unscanned
C9_Witness ==
    /\ IsErr
    /\ result.err.variant = "Parser"
    /\ Len(pulled) + 2 <= Len(AllItems)

(***************************************************************************)
(* C10.  parse never panics: the iterator is never asked for an item after *)
(* it has yielded EOF (it would return None), the token advance returns in *)
(* parse_value is the one that was peeked, and parse is inside one of its  *)
(* functions exactly as long as it has not returned.                       *)
(***************************************************************************)
C10_NoPanic ==
    /\ result.tag \in {"Running", "Ok", "Err"}
    /\ \A i \in 1..Len(pulled) : ~pulled[i].none
    /\ (lexer.finished /\ peeked = <<>>) => Done
    /\ Running <=> stack # <<>>

\* the EOF token was consumed by an advance inside the grammar, and parse
\* returned an error
C10_Witness ==
    /\ IsErr
    /\ lexer.finished
    /\ peeked = <<>>
    /\ result.err.kind.k = "ExpectedToken"
    /\ result.err.kind.expected # <<Kind("EOF")>>

(***************************************************************************)
(* What the scalar claims are stated against: the JSON number grammar as   *)
(* an automaton, the decimal a number text spells, and the escapes of a    *)
(* string text, all read off the text itself.                              *)
(***************************************************************************)
\* the input without the whitespace before and after it
Trimmed ==
    LET ix == {i \in 1..Len(input) : ~IsWhitespace(input[i])}
    IN  IF ix = {} THEN <<>>
        ELSE SubSeq(input, CHOOSE i \in ix : \A j \in ix : i <= j,
                           CHOOSE i \in ix : \A j \in ix : j <= i)

\* -?(0|[1-9][0-9]*)(\.[0-9]+)?([eE][+-]?[0-9]+)? as an automaton
NumStep(q, c) ==
    CASE q = "start" /\ c = "-" -> "neg"
      [] q \in {"start", "neg"} /\ c = "0" -> "zero"
      [] q \in {"start", "neg"} /\ c \in Digits \ {"0"} -> "int"
      [] q = "int" /\ c \in Digits -> "int"
      [] q \in {"zero", "int"} /\ c = "." -> "dot"
      [] q \in {"dot", "frac"} /\ c \in Digits -> "frac"
      [] q \in {"zero", "int", "frac"} /\ c \in {"e", "E"} -> "e"
      [] q = "e" /\ c \in {"+", "-"} -> "esign"
      [] q \in {"e", "esign", "exp"} /\ c \in Digits -> "exp"
      [] OTHER -> "bad"

RECURSIVE NumRun(_, _)
NumRun(t, n) == IF n = 0 THEN "start" ELSE NumStep(NumRun(t, n - 1), t[n])

\* t is a JSON number text
IsNumberText(t) == NumRun(t, Len(t)) \in {"zero", "int", "frac", "exp"}

\* the integer a sequence of digits spells
RECURSIVE SeqValue(_)
SeqValue(ds) ==
    IF ds = <<>> THEN 0
    ELSE SeqValue(SubSeq(ds, 1, Len(ds) - 1)) * 10 + HexVal(ds[Len(ds)])

\* a number text t spells (-1)^neg * digits * 10^scale
TextDecimal(t) ==
    LET es == {i \in 1..Len(t) : t[i] \in {"e", "E"}}
        ePos == IF es = {} THEN Len(t) + 1 ELSE CHOOSE i \in es : TRUE
        ds == {i \in 1..Len(t) : t[i] = "."}
        fracLen == IF ds = {} THEN 0 ELSE ePos - 1 - (CHOOSE i \in ds : TRUE)
        expText == SubSeq(t, ePos + 1, Len(t))
        expAbs == SeqValue(SelectSeq(expText, IsAsciiDigit))
        exp == IF expText # <<>> /\ expText[1] = "-" THEN 0 - expAbs ELSE expAbs
    IN  [neg |-> t[1] = "-",
         digits |-> SeqValue(SelectSeq(SubSeq(t, 1, ePos - 1), IsAsciiDigit)),
         scale |-> exp - fracLen,
         exp |-> exp]

\* the f64 v is the number the decimal d spells
SameNumber(v, d) ==
    /\ ~v.inf
    /\ v.neg = d.neg
    /\ IF d.digits = 0 THEN v.m = 0
       ELSE /\ v.m % 10 # 0
            /\ v.e >= d.scale
            /\ d.digits = v.m * Pow10(v.e - d.scale)

\* the table of the single-character escapes
EscapeTable ==
    [c \in {Q, BS, "/", "b", "f", "n", "r", "t"} |->
        CASE c = Q -> 34 [] c = BS -> 92 [] c = "/" -> 47 [] c = "b" -> 8
          [] c = "f" -> 12 [] c = "n" -> 10 [] c = "r" -> 13 [] c = "t" -> 9]

\* the code point four hex digits at t[i..i+3] spell
Hex4(t, i) ==
    4096 * HexVal(t[i]) + 256 * HexVal(t[i + 1]) + 16 * HexVal(t[i + 2])
       + HexVal(t[i + 3])

\* a well-formed \uXXXX at index i of t (i is the backslash)
IsUnicodeEscape(t, i) ==
    /\ i + 5 <= Len(t)
    /\ t[i + 1] = "u"
    /\ \A k \in 2..5 : IsAsciiHexdigit(t[i + k])
    /\ ~(55296 <= Hex4(t, i + 2) /\ Hex4(t, i + 2) <= 57343)

\* the decoded text of the string body that starts at index i of t, up to the
\* closing quote at the end of t; <<-1>> when the body is not well formed
RECURSIVE BodyText(_, _)
BodyText(t, i) ==
    IF i > Len(t) THEN <<-1>>
    ELSE IF t[i] = Q THEN (IF i = Len(t) THEN <<>> ELSE <<-1>>)
    ELSE IF t[i] = BS
         THEN IF i + 1 <= Len(t) /\ t[i + 1] \in DOMAIN EscapeTable
              THEN <<EscapeTable[t[i + 1]]>> \o BodyText(t, i + 2)
              ELSE IF IsUnicodeEscape(t, i)
              THEN <<Hex4(t, i + 2)>> \o BodyText(t, i + 6)
              ELSE <<-1>>
    ELSE IF CodeOf(t[i]) < 32 THEN <<-1>>
    ELSE <<CodeOf(t[i])>> \o BodyText(t, i + 1)

\* t is a well-formed string text
IsStringText(t) ==
    /\ Len(t) >= 2
    /\ t[1] = Q
    /\ \A k \in 1..Len(BodyText(t, 2)) : BodyText(t, 2)[k] >= 0

(***************************************************************************)
(* C11.  An input that is one scalar text, alone or between whitespace,    *)
(* parses to the scalar value it spells: null to Null, true and false to   *)
(* Bool, a number text to the Number of its numeric value (42 to 42.0, -10 *)
(* to -10.0, 3.14 to 3.14; for texts whose exponent is within the range of *)
(* f64), a string text to the String of its decoded text.                  *)
(***************************************************************************)
C11_ScalarParses ==
    Done =>
       LET t == Trimmed
           ok(v) == result = [tag |-> "Ok", value |-> v]
       IN  /\ t = NullText => ok(Value("Null", <<>>))
           /\ t = TrueText => ok(Value("Bool", TRUE))
           /\ t = FalseText => ok(Value("Bool", FALSE))
           /\ (IsNumberText(t) /\ TextDecimal(t).exp \in -300..300)
                 => /\ IsOk
                    /\ result.value.t = "Number"
                    /\ SameNumber(result.value.v, TextDecimal(t))
           /\ t = <<"4", "2">> => ok(Value("Number", F64(FALSE, 42, 0)))
           /\ t = <<"-", "1", "0">> => ok(Value("Number", F64(TRUE, 1, 1)))
           /\ t = <<"3", ".", "1", "4">> => ok(Value("Number", F64(FALSE, 314, -2)))
           /\ IsStringText(t) => ok(Value("String", BodyText(t, 2)))

\* 3.14 between whitespace has been parsed to the number 314 * 10^-2
C11_Witness ==
    /\ IsOk
    /\ input[1] = " "
    /\ result.value = Value("Number", F64(FALSE, 314, -2))

(***************************************************************************)
(* The value a well-formed token sequence denotes, read off the nesting of *)
(* its brackets: ks is the sequence of token kinds, i the index at which a *)
(* value starts.                                                           *)
(***************************************************************************)
\* the number of containers that are open before the token at index k
Depth(ks, k) ==
    Cardinality({j \in 1..(k - 1) : ks[j].t \in {"LeftBrace", "LeftBracket"}})
       - Cardinality({j \in 1..(k - 1) : ks[j].t \in {"RightBrace", "RightBracket"}})

\* the index of the bracket that closes the one at index i
MatchOf(ks, i) ==
    CHOOSE j \in (i + 1)..Len(ks) :
       /\ Depth(ks, j + 1) = Depth(ks, i)
       /\ \A h \in (i + 1)..(j - 1) : Depth(ks, h + 1) # Depth(ks, i)

\* the indices of the keys of the object that opens at index i
KeysOf(ks, i) ==
    {k \in (i + 1)..(MatchOf(ks, i) - 1) :
        /\ ks[k].t = "String"
        /\ ks[k + 1].t = "Colon"
        /\ Depth(ks, k) = Depth(ks, i) + 1}

\* the indices at which the elements of the array that opens at index i start
StartsOf(ks, i) ==
    {p \in (i + 1)..(MatchOf(ks, i) - 1) :
        /\ Depth(ks, p) = Depth(ks, i) + 1
        /\ p = i + 1 \/ ks[p - 1].t = "Comma"}

\* the n-th smallest member of a set of indices
Nth(S, n) == CHOOSE p \in S : Cardinality({q \in S : q < p}) = n - 1

\* the index of the last occurrence of the key `key` among the key indices K
LastOf(ks, K, key) ==
    CHOOSE k \in K : ks[k].v = key /\ \A h \in K : ks[h].v = key => h <= k

RECURSIVE Denoted(_, _)
Denoted(ks, i) ==
    CASE ks[i].t = "LeftBrace" ->
            LET K == KeysOf(ks, i)
            IN  Value("Object",
                      [key \in {ks[k].v : k \in K} |->
                          Denoted(ks, LastOf(ks, K, key) + 2)])
      [] ks[i].t = "LeftBracket" ->
            LET S == StartsOf(ks, i)
            IN  Value("Array", [n \in 1..Cardinality(S) |-> Denoted(ks, Nth(S, n))])
      [] ks[i].t = "True" -> Value("Bool", TRUE)
      [] ks[i].t = "False" -> Value("Bool", FALSE)
      [] ks[i].t = "Null" -> Value("Null", <<>>)
      [] OTHER -> Value(ks[i].t, ks[i].v)

\* the input is a well-formed JSON text
WellFormed ==
    LET items == AllItems
    IN  /\ \A i \in 1..Len(items) : items[i].ok
        /\ GAccepts(ItemTypes(items))

AllKinds == LET items == AllItems IN [i \in 1..Len(items) |-> items[i].kind]

(***************************************************************************)
(* C12.  A well-formed object text parses to the Object that has one entry *)
(* for each distinct key of the text, the key mapped to the value of its   *)
(* last occurrence; {} parses to the empty Object.                         *)
(***************************************************************************)
C12_ObjectLastWins ==
    /\ (Done /\ WellFormed)
          => LET ks == AllKinds
             IN  ks[1].t = "LeftBrace"
                    => /\ result = [tag |-> "Ok", value |-> Denoted(ks, 1)]
                       /\ DOMAIN result.value.v = {ks[k].v : k \in KeysOf(ks, 1)}
    /\ (Done /\ Trimmed = <<"{", "}">>)
          => result = [tag |-> "Ok", value |-> Value("Object", EmptyMap)]

\* a text with the key "a" twice has been parsed: the object has one entry,
\* and it holds the second value
C12_Witness ==
    /\ IsOk
    /\ Cardinality(KeysOf(AllKinds, 1)) = 2
    /\ result.value = Value("Object", [k \in {<<97>>} |-> Value("Null", <<>>)])

(***************************************************************************)
(* C13.  A well-formed array text with n >= 0 elements parses to the Array *)
(* of exactly n values, the i-th being the value of the i-th element of    *)
(* the text, nested arrays and objects included; [] parses to the empty    *)
(* Array.                                                                  *)
(***************************************************************************)
C13_ArrayInOrder ==
    /\ (Done /\ WellFormed)
          => LET ks == AllKinds
             IN  ks[1].t = "LeftBracket"
                    => /\ result = [tag |-> "Ok", value |-> Denoted(ks, 1)]
                       /\ Len(result.value.v) = Cardinality(StartsOf(ks, 1))
    /\ (Done /\ Trimmed = <<"[", "]">>)
          => result = [tag |-> "Ok", value |-> Value("Array", <<>>)]

\* an array of two different elements, the second a literal, has been parsed
C13_Witness ==
    /\ IsOk
    /\ result.value.t = "Array"
    /\ Len(result.value.v) = 2
    /\ result.value.v[1] # result.value.v[2]
    /\ result.value.v[2].t = "Null"

(***************************************************************************)
(* The body of a string read off the input: from index i on, well-formed   *)
(* escapes and plain characters are decoded by the table until the body    *)
(* stops at index `at`: at the closing quote ("closed"), at the end of the *)
(* input ("end"), at a raw control character ("raw"), or at a backslash    *)
(* that does not start a well-formed escape ("escape").                    *)
(***************************************************************************)
RECURSIVE StrWalk(_, _)
StrWalk(i, acc) ==
    IF i > Len(input) THEN [why |-> "end", at |-> i, text |-> acc]
    ELSE IF input[i] = Q THEN [why |-> "closed", at |-> i, text |-> acc]
    ELSE IF input[i] = BS
         THEN IF i + 1 <= Len(input) /\ input[i + 1] \in DOMAIN EscapeTable
              THEN StrWalk(i + 2, Append(acc, EscapeTable[input[i + 1]]))
              ELSE IF IsUnicodeEscape(input, i)
              THEN StrWalk(i + 6, Append(acc, Hex4(input, i + 2)))
              ELSE [why |-> "escape", at |-> i, text |-> acc]
    ELSE IF CodeOf(input[i]) < 32 THEN [why |-> "raw", at |-> i, text |-> acc]
    ELSE StrWalk(i + 1, Append(acc, CodeOf(input[i])))

\* the item is the scan of a lexeme that starts with a quote
IsStringItem(it) ==
    ~it.none /\ it.start <= Len(input) /\ input[it.start] = Q

IsError(it, kind) == ~it.none /\ ~it.ok /\ it.kind = kind

(***************************************************************************)
(* C14.  The escapes of a string are decoded by the table: a string whose  *)
(* escapes are all well formed yields the String of the table's characters *)
(* and of the code points its \uXXXX spell; at the first backslash that    *)
(* does not start a well-formed escape the scan fails, with InvalidEscape  *)
(* when a `u` follows it (a digit that is not hexadecimal, fewer than four *)
(* digits, or a surrogate) and with InvalidEscapeChar carrying the         *)
(* character when any other character follows it.                          *)
(***************************************************************************)
C14_EscapeTable ==
    /\ \A n \in 1..Len(pulled) :
          IsStringItem(pulled[n]) =>
             LET it == pulled[n]
                 w == StrWalk(it.start + 1, <<>>)
             IN  /\ w.why = "closed" =>
                       it.ok /\ it.kind = KindV("String", w.text)
                 /\ (w.why = "escape" /\ w.at + 1 <= Len(input)) =>
                       IF input[w.at + 1] = "u"
                       THEN IsError(it, ErrKind("InvalidEscape"))
                       ELSE IsError(it, ErrKindC("InvalidEscapeChar", input[w.at + 1]))
    /\ (pulled # <<>>
          /\ input = <<Q, BS, "n", BS, "t", BS, "u", "0", "0", "4", "1", Q>>)
          => pulled[1].ok /\ pulled[1].kind = KindV("String", <<10, 9, 65>>)

\* a string with escapes of both forms has been decoded
C14_Witness ==
    /\ pulled # <<>>
    /\ pulled[1].ok
    /\ pulled[1].kind = KindV("String", <<10, 9, 65>>)

(***************************************************************************)
(* C15.  The iterator yields the EOF token exactly once, as its last item: *)
(* the call that yields it finds nothing but whitespace left and leaves    *)
(* the whole input consumed, no item before it is EOF or None (lexer       *)
(* errors may be among them), every call after it returns None, and None   *)
(* is never returned before it.  The scan gets there: the items before EOF *)
(* are at most as many as the characters of the input.                     *)
(***************************************************************************)
IsEOFItem(it) == ~it.none /\ it.ok /\ it.kind.t = "EOF"

C15_EOFOnceAtEnd ==
    /\ [](/\ \A n \in 1..Len(pulled) :
               IsEOFItem(pulled[n]) =>
                  /\ pulled[n].start = Len(input) + 1
                  /\ lexer.pos = Len(input) + 1
                  /\ \A j \in 1..(n - 1) : ~pulled[j].none /\ ~IsEOFItem(pulled[j])
                  /\ \A j \in (n + 1)..Len(pulled) : pulled[j].none
          /\ \A n \in 1..Len(pulled) :
               pulled[n].none =>
                  n > 1 /\ (pulled[n - 1].none \/ IsEOFItem(pulled[n - 1]))
          /\ Len(pulled) - NoneCalls(pulled) <= Len(input) + 1)
    /\ [][(pulled' # pulled /\ IsEOFItem(pulled'[Len(pulled')]))
             => \A i \in lexer.pos..Len(input) : IsWhitespace(input[i])]_vars

\* EOF has been yielded after a lexer error, and two more calls returned None
C15_Witness ==
    /\ Len(pulled) >= 4
    /\ IsErrorItem(pulled[1])
    /\ IsEOFItem(pulled[Len(pulled) - 2])
    /\ pulled[Len(pulled)].none

(***************************************************************************)
(* C16.  The lexer's line and column are never below 1, so every token,    *)
(* every lexer error and every error parse returns carries a line and a    *)
(* column of at least 1, and the subtractions of pretty_print on an error  *)
(* of parse do not go below 0.                                             *)
(***************************************************************************)
C16_PositionsFromOne ==
    /\ lexer.line >= 1
    /\ lexer.column >= 1
    /\ \A n \in 1..Len(pulled) :
          ~pulled[n].none => pulled[n].line >= 1 /\ pulled[n].column >= 1
    /\ IsErr =>
          /\ result.err.line >= 1
          /\ result.err.column >= 1
          /\ PrettyPrintSubtractions(result.err).index >= 0
          /\ PrettyPrintSubtractions(result.err).width >= 0

\* a grammar error at the very first position: both subtractions give 0
C16_Witness ==
    /\ IsErr
    /\ result.err.variant = "Parser"
    /\ PrettyPrintSubtractions(result.err) = [index |-> 0, width |-> 0]

(***************************************************************************)
(* C17.  Whatever calls of next_token were made, with the lexer having     *)
(* consumed the first pos - 1 characters of the input, its line is 1 plus  *)
(* the number of newlines among them and its column is 1 plus the number   *)
(* of characters after the last of these newlines (all of them when there  *)
(* is none): a carriage return counts as any other character, and a call   *)
(* at the end of the input changes nothing.                                *)
(***************************************************************************)
\* the characters the lexer has consumed
Consumed == SubSeq(input, 1, lexer.pos - 1)

\* the indices of the newlines of a text
NewlinesOf(p) == {i \in 1..Len(p) : p[i] = NL}

C17_LineColumnOfPrefix ==
    /\ [](/\ lexer.pos \in 1..(Len(input) + 1)
          /\ lexer.line = 1 + Cardinality(NewlinesOf(Consumed))
          /\ lexer.column =
                1 + IF NewlinesOf(Consumed) = {} THEN Len(Consumed)
                    ELSE Len(Consumed)
                            - (CHOOSE i \in NewlinesOf(Consumed) :
                                  \A j \in NewlinesOf(Consumed) : j <= i))
    /\ [][lexer.pos = Len(input) + 1 => lexer' = lexer \/
             lexer' = [lexer EXCEPT !.finished = TRUE]]_vars

\* the lexer is on the second line, past a carriage return, after an error
C17_Witness ==
    /\ lexer.line = 2
    /\ lexer.column >= 3
    /\ \E i \in 1..Len(Consumed) : Consumed[i] = CR /\ i > 1 /\ Consumed[i - 1] = NL
    /\ \E n \in 1..Len(pulled) : IsErrorItem(pulled[n])

(***************************************************************************)
(* Where a scan that starts at index s of the input fails, read off the    *)
(* input: the index of the character at which the failure shows (one past  *)
(* the end when it is the end of the input that shows it).                 *)
(***************************************************************************)
\* the least index from `from` on that has the property, the input's end included
FirstFrom(from, Holds(_)) ==
    CHOOSE k \in from..(Len(input) + 1) :
       /\ k = Len(input) + 1 \/ Holds(k)
       /\ \A h \in from..(k - 1) : ~Holds(h)

\* a literal that starts at s: the first character that is not the literal's,
\* or the character after the literal
LiteralFailIndex(s) ==
    LET lit == CASE input[s] = "t" -> TrueText
                 [] input[s] = "f" -> FalseText
                 [] input[s] = "n" -> NullText
        Differs(k) == k - s >= Len(lit) \/ input[k] # lit[k - s + 1]
    IN  FirstFrom(s, Differs)

\* a number that starts at s: the character after the longest prefix that can
\* still be continued to a number
NumberFailIndex(s) ==
    LET t == SubSeq(input, s, Len(input))
        Stops(k) == NumRun(t, k - s + 1) = "bad"
    IN  FirstFrom(s, Stops)

\* an escape whose backslash is at b: the character after the backslash, or for
\* \u the first of the four characters that is not a hex digit, or the
\* character after the four
EscapeFailIndex(b) ==
    LET NotHex(k) == k = b + 6 \/ ~IsAsciiHexdigit(input[k])
    IN  IF b + 1 <= Len(input) /\ input[b + 1] = "u"
        THEN FirstFrom(b + 2, NotHex)
        ELSE b + 1

\* the index at which the failed scan `it` fails, by the kind of its error
FailIndex(it) ==
    LET k == it.kind.k
        w == StrWalk(it.start + 1, <<>>)
    IN  CASE k = "UnexcpectedChar" -> it.start
          [] k \in {"UnclosedString", "UnescapedControlCharacter"} -> w.at
          [] k \in {"InvalidEscape", "InvalidEscapeChar"} -> EscapeFailIndex(w.at)
          [] k = "InvalidLiteral" -> LiteralFailIndex(it.start)
          [] k \in {"InvalidNumber", "InvalidDecimal", "InvalidExponent",
                    "LeadingZero"} -> NumberFailIndex(it.start)

(***************************************************************************)
(* C18.  A lexer error carries the line and the column of the point of     *)
(* failure, the first character not consumed when the failure shows (the   *)
(* end-of-input position when the input ran out): UnexpectedChar that of   *)
(* the character, UnclosedString that of the raw newline or carriage       *)
(* return or of the end of the input, InvalidLiteral that of the first     *)
(* character that does not match, InvalidEscapeChar that of the character  *)
(* after the backslash, the number errors that of the character where a    *)
(* digit was required.                                                     *)
(***************************************************************************)
C18_ErrorAtPointOfFailure ==
    \A n \in 1..Len(pulled) :
       IsErrorItem(pulled[n]) =>
          LET it == pulled[n]
              at == FailIndex(it)
          IN  /\ it.line = LineAt(at)
              /\ it.column = ColAt(at)
              /\ it.kind.k = "UnexcpectedChar" => it.kind.c = input[at]
              /\ it.kind.k = "UnclosedString" =>
                    at = Len(input) + 1 \/ input[at] \in {NL, CR}
              /\ it.kind.k = "InvalidEscapeChar" =>
                    input[at - 1] = BS /\ it.kind.c = input[at]
              /\ it.kind.k \in {"InvalidNumber", "InvalidDecimal", "InvalidExponent"} =>
                    at = Len(input) + 1 \/ input[at] \notin Digits

\* a number has failed on the second line for want of a digit, not at the
\* end of the input
C18_Witness ==
    \E n \in 1..Len(pulled) :
       /\ IsError(pulled[n], ErrKind("InvalidExponent"))
       /\ pulled[n].line = 2
       /\ FailIndex(pulled[n]) <= Len(input)

(***************************************************************************)
(* C19.  A string scan that runs out of input before the closing quote     *)
(* fails with UnclosedString, also when the input ends right after a       *)
(* backslash or inside a \u escape.                                        *)
(***************************************************************************)
\* the body that starts after the quote at index s runs into the end of the
\* input: as plain text, or inside its first escape that is not well formed
Exhausted(s) ==
    LET w == StrWalk(s + 1, <<>>)
    IN  \/ w.why = "end"
        \/ w.why = "escape" /\ EscapeFailIndex(w.at) = Len(input) + 1

C19_ExhaustedIsUnclosed ==
    \A n \in 1..Len(pulled) :
       (IsStringItem(pulled[n]) /\ Exhausted(pulled[n].start))
          => IsError(pulled[n], ErrKind("UnclosedString"))

(***************************************************************************)
(* C20.  In a string, a raw newline or carriage return before the closing  *)
(* quote fails with UnclosedString and any other raw character below       *)
(* U+0020 with UnescapedControlCharacter; a string without backslashes     *)
(* that is closed yields exactly the characters between its quotes.        *)
(***************************************************************************)
C20_RawCharacters ==
    \A n \in 1..Len(pulled) :
       IsStringItem(pulled[n]) =>
          LET it == pulled[n]
              w == StrWalk(it.start + 1, <<>>)
          IN  /\ w.why = "raw" =>
                    IF input[w.at] \in {NL, CR}
                    THEN IsError(it, ErrKind("UnclosedString"))
                    ELSE IsError(it, ErrKind("UnescapedControlCharacter"))
              /\ (w.why = "closed"
                    /\ \A i \in (it.start + 1)..(w.at - 1) : input[i] # BS)
                    => /\ it.ok
                       /\ it.kind.t = "String"
                       /\ it.kind.v = [i \in 1..(w.at - it.start - 1) |->
                                          CodeOf(input[it.start + i])]

\* a raw tab after a plain character has been refused
C20_Witness ==
    \E n \in 1..Len(pulled) :
       /\ IsError(pulled[n], ErrKind("UnescapedControlCharacter"))
       /\ input[FailIndex(pulled[n])] = TAB
       /\ FailIndex(pulled[n]) >= pulled[n].start + 2

(***************************************************************************)
(* C21.  A scan that starts on a digit or '-' follows the number grammar   *)
(* (optional '-'; 0 or a digit from 1 to 9 and digits; optionally '.' and  *)
(* one digit or more; optionally e or E, an optional sign and one digit or *)
(* more) as far as the input can still become a number, and what it        *)
(* returns is decided by where that stops: after the '-' alone             *)
(* InvalidNumber, after a 0 with a digit next                              *)
(* LeadingZero, after the '.' InvalidDecimal, after the exponent marker or *)
(* its sign InvalidExponent; anywhere else one Number token for the        *)
(* characters up to there, with the lexer left on the character after.     *)
(***************************************************************************)
\* the item is the outcome of a scan that started on a digit or '-'
IsNumberItem(it) ==
    ~it.none /\ it.start <= Len(input) /\ input[it.start] \in Digits \cup {"-"}

C21_NumberGrammar ==
    \A n \in 1..Len(pulled) :
       IsNumberItem(pulled[n]) =>
          LET it == pulled[n]
              t == SubSeq(input, it.start, Len(input))
              stop == NumberFailIndex(it.start)
              len == stop - it.start
              q == NumRun(t, len)
              digitNext == stop <= Len(input) /\ input[stop] \in Digits
          IN  /\ q = "neg" => IsError(it, ErrKind("InvalidNumber"))
              /\ (q = "zero" /\ digitNext) => IsError(it, ErrKind("LeadingZero"))
              /\ q = "dot" => IsError(it, ErrKind("InvalidDecimal"))
              /\ q \in {"e", "esign"} => IsError(it, ErrKind("InvalidExponent"))
              /\ (q \in {"int", "frac", "exp"} \/ (q = "zero" /\ ~digitNext)) =>
                    /\ it.ok
                    /\ it.kind.t = "Number"
                    /\ SameNumber(it.kind.v, TextDecimal(SubSeq(t, 1, len)))
                    /\ n = Len(pulled) => lexer.pos = stop

\* a number with a fraction and an exponent has just been scanned, and the
\* lexer is on the character after it
C21_Witness ==
    /\ pulled # <<>>
    /\ IsNumberItem(pulled[Len(pulled)])
    /\ pulled[Len(pulled)].ok
    /\ lexer.pos = NumberFailIndex(pulled[Len(pulled)].start)
    /\ lexer.pos <= Len(input)
    /\ \E i, j \in pulled[Len(pulled)].start..(lexer.pos - 1) :
          input[i] = "." /\ input[j] \in {"e", "E"}

(***************************************************************************)
(* C22.  A scan that starts on t, f or n compares the input with true,     *)
(* false or null character by character: a character that differs, or the *)
(* end of the input before the literal is complete, fails with             *)
(* InvalidLiteral; so does an ASCII letter or digit right after the        *)
(* complete literal; otherwise the token True, False or Null is returned   *)
(* and the lexer is left on the character after the literal.               *)
(***************************************************************************)
\* the item is the outcome of a scan that started on t, f or n
IsLiteralItem(it) ==
    ~it.none /\ it.start <= Len(input) /\ input[it.start] \in {"t", "f", "n"}

\* the literal the character c starts, and the kind of its token
LiteralOf(c) ==
    CASE c = "t" -> [text |-> TrueText, kind |-> Kind("True")]
      [] c = "f" -> [text |-> FalseText, kind |-> Kind("False")]
      [] c = "n" -> [text |-> NullText, kind |-> Kind("Null")]

C22_LiteralMatch ==
    \A n \in 1..Len(pulled) :
       IsLiteralItem(pulled[n]) =>
          LET it == pulled[n]
              lit == LiteralOf(input[it.start])
              stop == LiteralFailIndex(it.start)
              full == stop - it.start = Len(lit.text)
              alnumNext == /\ stop <= Len(input)
                           /\ input[stop] \in Digits \cup LowerLetters \cup UpperLetters
          IN  /\ ~full => IsError(it, ErrKind("InvalidLiteral"))
              /\ (full /\ alnumNext) => IsError(it, ErrKind("InvalidLiteral"))
              /\ (full /\ ~alnumNext) =>
                    /\ it.ok
                    /\ it.kind = lit.kind
                    /\ n = Len(pulled) => lexer.pos = stop

\* a literal has been returned with the character after it left in the input,
\* and a later complete literal was refused for the digit that follows it
C22_Witness ==
    \E n, m \in 1..Len(pulled) :
       /\ n < m
       /\ IsLiteralItem(pulled[n]) /\ pulled[n].ok
       /\ LiteralFailIndex(pulled[n].start) <= Len(input)
       /\ input[LiteralFailIndex(pulled[n].start)] = ","
       /\ IsLiteralItem(pulled[m])
       /\ IsError(pulled[m], ErrKind("InvalidLiteral"))
       /\ LiteralFailIndex(pulled[m].start) = pulled[m].start + 4
       /\ pulled[m].start + 4 <= Len(input)
       /\ input[pulled[m].start + 4] \in Digits

(***************************************************************************)
(* C23.  A call of next_token that returns a token other than EOF, or an   *)
(* error of any kind, leaves the lexer past at least one character of the  *)
(* lexeme it started on; on UnexpectedChar it leaves it right after the    *)
(* offending character.  So the lexemes of successive calls start at       *)
(* strictly increasing indices, and a caller that goes on after errors has *)
(* seen at most as many such items as the input has characters when the    *)
(* EOF comes.                                                              *)
(***************************************************************************)
\* the items so far that are neither the EOF token nor None
Scanned(items) ==
    {n \in 1..Len(items) : ~items[n].none /\ ~IsEOFItem(items[n])}

C23_EveryCallConsumes ==
    /\ [](/\ Cardinality(Scanned(pulled)) <= Len(input)
          /\ \A n, m \in Scanned(pulled) :
                n < m => pulled[n].start < pulled[m].start)
    /\ [][pulled' # pulled =>
             LET it == pulled'[Len(pulled')]
             IN  (~it.none /\ ~IsEOFItem(it)) =>
                    /\ lexer.pos <= it.start
                    /\ it.start < lexer'.pos
                    /\ (~it.ok /\ it.kind.k = "UnexcpectedChar") =>
                          /\ it.kind.c = input[it.start]
                          /\ lexer'.pos = it.start + 1]_vars

\* three calls have each returned an error, the second for a character that
\* no token starts with, and the next call has returned the EOF
C23_Witness ==
    /\ Len(pulled) >= 4
    /\ \A n \in 1..3 : IsErrorItem(pulled[n])
    /\ pulled[2].kind.k = "UnexcpectedChar"
    /\ IsEOFItem(pulled[4])

(***************************************************************************)
(* C24.  parse returns on every input, and it reads the input in one       *)
(* forward pass: the read position of the lexer never decreases, the items *)
(* pulled from it are only ever added to, each lexeme starting after the   *)
(* one before, the count of consumed tokens never decreases, and the loops *)
(* consume as they go round: an array that has collected n elements has    *)
(* consumed at least 2n tokens, an object that holds n members at least 4n.*)
(* Until it returns, parse is at a position that has a step to take.       *)
(***************************************************************************)
\* the tokens a call on the stack must have consumed for what it has collected
LoopTokens(f) ==
    IF f.fn = "parse_array" THEN 2 * Len(f.acc)
    ELSE IF f.fn = "parse_object" THEN 4 * Cardinality(DOMAIN f.acc)
    ELSE 0

\* the positions of the calls of the parser, one for each of its steps
Positions ==
    {<<"parse", "start">>, <<"parse", "expect_eof">>, <<"parse_value", "start">>,
     <<"parse_object", "open">>, <<"parse_object", "key">>,
     <<"parse_object", "colon">>, <<"parse_object", "insert">>,
     <<"parse_object", "close">>, <<"parse_array", "open">>,
     <<"parse_array", "loop">>, <<"parse_array", "push">>,
     <<"parse_array", "close">>}

C24_SingleForwardPass ==
    /\ <>Done
    /\ [](Running => stack # <<>> /\ <<Top.fn, Top.pc>> \in Positions)
    /\ [](\A k \in 1..Len(stack) : consumed >= LoopTokens(stack[k]))
    /\ [](\A n, m \in 1..Len(pulled) : n < m => pulled[n].start < pulled[m].start)
    /\ [][/\ lexer'.pos >= lexer.pos
          /\ consumed' >= consumed
          /\ Len(pulled') >= Len(pulled)
          /\ SubSeq(pulled', 1, Len(pulled)) = pulled]_vars

\* parse has returned a value after an array loop that went round three times,
\* once about an inner array loop that went round twice
C24_Witness ==
    /\ IsOk
    /\ result.value.t = "Array"
    /\ Len(result.value.v) >= 3
    /\ \E i \in 1..Len(result.value.v) :
          /\ result.value.v[i].t = "Array"
          /\ Len(result.value.v[i].v) >= 2
    /\ lexer.pos = Len(input) + 1

(***************************************************************************)
(* C25.  When the first token that the grammar does not allow comes inside *)
(* an object, the error parse returns is decided by where it comes: where  *)
(* a member has to start, ExpectedToken(String, found); after a key,       *)
(* ExpectedToken(Colon, found); after a member's value,                    *)
(* ExpectedObjectEndOrComma(found), and the found token has not been       *)
(* consumed: it is still held as the lookahead.                            *)
(***************************************************************************)
\* the index of the first of the kinds ts that the grammar does not allow
\* (0 when there is none)
FirstRejected(ts) ==
    IF \E k \in 1..Len(ts) : GAfter(ts, k).mode = "reject"
    THEN CHOOSE k \in 1..Len(ts) :
            /\ GAfter(ts, k).mode = "reject"
            /\ \A j \in 1..(k - 1) : GAfter(ts, j).mode # "reject"
    ELSE 0

C25_ObjectErrorKinds ==
    Done =>
       LET items == AllItems
           ts == ItemTypes(items)
           k == FirstRejected(ts)
       IN  (k > 0 /\ items[k].ok) =>
              LET mode == GAfter(ts, k - 1).mode
                  found == <<items[k].kind>>
              IN  /\ mode \in {"obj_first", "key"} =>
                        /\ IsParserErr("ExpectedToken")
                        /\ result.err.kind.expected = <<KindV("String", <<>>)>>
                        /\ result.err.kind.found = found
                  /\ mode = "colon" =>
                        /\ IsParserErr("ExpectedToken")
                        /\ result.err.kind.expected = <<Kind("Colon")>>
                        /\ result.err.kind.found = found
                  /\ mode = "obj_next" =>
                        /\ IsParserErr("ExpectedObjectEndOrComma")
                        /\ result.err.kind.found = found
                        /\ consumed = k - 1
                        /\ peeked = <<items[k]>>

\* a second key came right after a member's value: it is reported and is still
\* the lookahead
C25_Witness ==
    /\ IsParserErr("ExpectedObjectEndOrComma")
    /\ result.err.kind.found = <<KindV("String", <<CodeOf("a")>>)>>
    /\ peeked # <<>>
    /\ peeked[1].kind.t = "String"
    /\ consumed = Len(pulled) - 1

(***************************************************************************)
(* C26.  The parser pulls the items of the lexer on demand, one ahead at   *)
(* most: the items pulled are the first items the lexer yields on the      *)
(* input, in its order; the tokens consumed are all of them, or all but    *)
(* the last, which is then the one held as the lookahead; and the lexer    *)
(* has scanned exactly the items pulled, also when parse has returned an   *)
(* error.                                                                  *)
(***************************************************************************)
\* the lexer after n calls of next() on the input
RECURSIVE LexerAfter(_)
LexerAfter(n) == IF n = 0 THEN LexerNew ELSE LexerNext(LexerAfter(n - 1)).lx

C26_OneTokenLookahead ==
    LET items == AllItems
    IN  /\ Len(pulled) \in {consumed, consumed + 1}
        /\ peeked = IF Len(pulled) = consumed THEN <<>> ELSE <<pulled[Len(pulled)]>>
        /\ Len(pulled) <= Len(items)
        /\ \A n \in 1..Len(pulled) : pulled[n] = items[n]
        /\ lexer = LexerAfter(Len(pulled))

\* parse has returned an error with a token held as the lookahead and the
\* rest of the input not scanned
C26_Witness ==
    /\ IsErr
    /\ consumed >= 3
    /\ Len(pulled) = consumed + 1
    /\ peeked = <<pulled[Len(pulled)]>>
    /\ lexer.pos <= Len(input)

(***************************************************************************)
(* C27.  No scan returns CastingError: whenever the parts of read_number   *)
(* have all succeeded, the text handed to the conversion is the lexeme     *)
(* with E written as e, it is a number of the JSON grammar with the        *)
(* exponent marker e, and the conversion accepts it.                       *)
(***************************************************************************)
\* a lexer that is about to read the character at index i
LexerAt(i) == [LexerNew EXCEPT !.pos = i, !.line = LineAt(i), !.column = ColAt(i)]

\* the text t with E written as e
Normalised(t) == [i \in 1..Len(t) |-> IF t[i] = "E" THEN "e" ELSE t[i]]

C27_NoCastingError ==
    \A n \in 1..Len(pulled) :
       /\ ~pulled[n].none => pulled[n].kind # ErrKind("CastingError")
       /\ IsNumberItem(pulled[n]) =>
             LET s == pulled[n].start
                 a == AccumulatedText(LexerAt(s))
             IN  a.ok =>
                    /\ a.v = Normalised(SubSeq(input, s, a.lx.pos - 1))
                    /\ IsNumberText(a.v)
                    /\ \A i \in 1..Len(a.v) : a.v[i] # "E"
                    /\ F64ParseOk(a.v)
                    /\ pulled[n].ok /\ pulled[n].kind.t = "Number"

\* a number written with E and a signed exponent has been converted
C27_Witness ==
    \E n \in 1..Len(pulled) :
       /\ IsNumberItem(pulled[n])
       /\ pulled[n].ok
       /\ \E i \in (pulled[n].start + 1)..(Len(input) - 2) :
             /\ input[i] = "E"
             /\ input[i + 1] \in {"+", "-"}
             /\ AccumulatedText(LexerAt(pulled[n].start)).v[i - pulled[n].start + 1] = "e"

(***************************************************************************)
(* C28.  parse never returns the kind UnexpectedEOF.  When the input ends  *)
(* where the grammar still needs a token, parse returns a grammar error    *)
(* whose found token is EOF and whose line and column are those of the end *)
(* of the input: UnexpectedToken where a value has to start (the empty     *)
(* input, after '[', after ':', after ',' in an array), ExpectedToken      *)
(* where a key or ':' has to come, ExpectedObjectEndOrComma after a        *)
(* member, ExpectedOneOfTokens after an element.                           *)
(***************************************************************************)
\* the kind of the error when the input ends with the grammar in `mode`
KindAtEOF(mode) ==
    CASE mode \in {"value", "arr_first"} -> "UnexpectedToken"
      [] mode \in {"obj_first", "key", "colon"} -> "ExpectedToken"
      [] mode = "obj_next" -> "ExpectedObjectEndOrComma"
      [] mode = "arr_next" -> "ExpectedOneOfTokens"

C28_EndOfInputIsAToken ==
    /\ ~IsParserErr("UnexpectedEOF")
    /\ Done =>
          LET items == AllItems
              ts == ItemTypes(items)
              k == FirstRejected(ts)
          IN  (k > 0 /\ IsEOFItem(items[k])) =>
                 /\ IsParserErr(KindAtEOF(GAfter(ts, k - 1).mode))
                 /\ result.err.kind.found = <<Kind("EOF")>>
                 /\ result.err.line = LineAt(Len(input) + 1)
                 /\ result.err.column = ColAt(Len(input) + 1)

\* the input ended on the second line after an element of an array
C28_Witness ==
    /\ IsParserErr("ExpectedOneOfTokens")
    /\ result.err.kind.found = <<Kind("EOF")>>
    /\ result.err.line = 2
    /\ result.err.column = ColAt(Len(input) + 1)

=============================================================================
